---- MODULE Spec2Model ----
(***************************************************************************)
(* A model of main.mjs (carlosmarte/npm-fastify-multi-tenant): the         *)
(* identifier validator, the path resolver, the resource loader's caches,  *)
(* the tenant factory, the tenant registry and the tenant manager.         *)
(*                                                                         *)
(* Strings are sequences of characters.  Every asynchronous operation of   *)
(* the manager is a task; one action is one run of a task from a           *)
(* suspension point (an await) to the next one, so the actions of several  *)
(* tasks interleave exactly where the event loop can interleave them.      *)
(***************************************************************************)
EXTENDS Integers, Sequences, FiniteSets, TLC

\* ------------------------------------------------------------------ bounds
\* Manager operations (loadTenant, loadAllTenants, reloadTenant,
\* unloadTenant) called in one behaviour.
MaxCalls == 2
\* TenantRegistry.maxTenants (50 by default; setMaxTenants sets it before
\* the first tenant is loaded).
MaxTenants == 2

\* The longest path handed to PathResolver.resolvePath.
MaxPathLen == 5

\* The most files a services directory lists.
MaxFiles == 3

\* PluginManager operations (loadLocalPlugin, loadNPMPlugin and the batch
\* loaders) called in one behaviour.
MaxUnitCalls == 2
\* The longest list of names handed to a batch loader.
MaxBatch == 2
\* The most config files a directory holds (config.json, config.js and
\* config.mjs at most).
MaxConfigFiles == 2
\* The longest string handed to a validator of SecurityValidator.
MaxIdLen == 3

Tasks == {"t1", "t2"}

\* ----------------------------------------------------------------- strings
\* A string is a sequence of tokens.  A token is one character, or a run of
\* characters of [A-Za-z0-9_-] that the model never splits ("tenants",
\* "base", "fastify-multitenant-").  "!" stands for every character outside
\* [A-Za-z0-9_-] other than the path separator "/".
AllowedChars ==
    {"a", "b", "c", "x", "-", "base", "tenants", "fastify-multitenant-",
     "api", "health", "localhost", "default", "default-tenant"}

\* The empty string; null and undefined take the same branches as "" in
\* every test the code applies to an id (!tenantId, config.name || tenantId).
NoId == << >>
IdA == <<"a">>
IdB == <<"b">>
IdC == <<"c">>
IdBad == <<"a", "!">>

\* tenantId.replace(/[^a-zA-Z0-9\-_]/g, "")
Sanitize(s) == SelectSeq(s, LAMBDA ch : ch \in AllowedChars)

\* SecurityValidator.validateTenantId: TRUE when it returns (its value is
\* then the input itself), FALSE when it throws.
ValidTenantId(id) == id # NoId /\ Sanitize(id) = id /\ Len(Sanitize(id)) # 0

\* ----------------------------------------------------------------- sources
\* path.join(this.pathResolver.baseDir, "tenants")
TenantsPath == <<"/", "base", "/", "tenants">>
\* path.join(tenantsPath, tenantId)
TenantDirPath(name) == TenantsPath \o <<"/">> \o name

\* The tenant source strings of the model: two tenant directories, one
\* package name and one bare name that is neither a path nor a package.
DirA == TenantDirPath(IdA)
DirB == TenantDirPath(IdB)
PkgA == <<"fastify-multitenant-", "a">>
RawC == <<"c">>
Sources == {DirA, DirB, PkgA, RawC}
\* A package name that is also the name of a directory below the base
\* directory: both adapters can handle it.
PkgB == <<"fastify-multitenant-", "b">>
\* A package whose root holds a config file that may set isTrustedPath.
PkgC == <<"fastify-multitenant-", "c">>
\* A package whose entry module exports an object, not a function.
PkgD == <<"fastify-multitenant-", "d">>

\* The index of the last "/" of s, 0 when there is none.
LastSlash(s) ==
    LET at == {i \in 1..Len(s) : s[i] = "/"}
    IN  IF at = {} THEN 0 ELSE CHOOSE i \in at : \A j \in at : j <= i

\* path.basename(source), for a source without a trailing separator
Basename(s) == SubSeq(s, LastSlash(s) + 1, Len(s))

\* source.replace(/^fastify-multitenant-/, "")
StripPrefix(s) ==
    IF Len(s) > 0 /\ s[1] = "fastify-multitenant-" THEN Tail(s) ELSE s

\* ------------------------------------------------------------- environment
\* fs.access on the resolved source: the paths that exist on disk.
LocalExists(s) == s \in {DirA, DirB, PkgB}
\* import-meta-resolve + find-up: the specifiers that resolve to a package root.
PkgResolves(s) == s \in {PkgA, PkgB, PkgC, PkgD}

\* moduleInfo.rootDir: the package root that getModuleInfo finds for a
\* specifier that resolves.
PkgRoot(s) == <<"/", "base", "/", "node_modules", "/">> \o s

\* The default export of a package's entry module (the module cache keeps
\* it for the life of the process): a function or an object, its config
\* property and its NAME property (NoCfg, NoId when absent).
PkgExport(s) == [isFunction |-> s # PkgD, config |-> [k \in {} |-> TRUE], NAME |-> NoId]

\* path.join(tenantPath, "schemas" | "services" | "plugins" | "routes")
SubPath(root, dir) == root \o <<"/", dir>>

\* The resource directories that exist below a tenant root.
Layout(root) ==
    IF root = DirA
    THEN [schemas |-> TRUE, services |-> TRUE, plugins |-> <<"p">>, routes |-> FALSE]
    ELSE IF root = DirB
    THEN [schemas |-> FALSE, services |-> FALSE, plugins |-> << >>, routes |-> TRUE]
    ELSE IF root = PkgRoot(PkgA)
    THEN [schemas |-> FALSE, services |-> TRUE, plugins |-> << >>, routes |-> FALSE]
    ELSE IF root = PkgRoot(PkgC)
    THEN [schemas |-> TRUE, services |-> FALSE, plugins |-> << >>, routes |-> TRUE]
    ELSE IF root = PkgRoot(PkgD)
    THEN [schemas |-> FALSE, services |-> FALSE, plugins |-> << >>, routes |-> TRUE]
    ELSE IF root = PkgB
    THEN [schemas |-> FALSE, services |-> TRUE, plugins |-> <<"p", "q", "r", "s", "t">>,
          routes |-> TRUE]
    ELSE [schemas |-> FALSE, services |-> FALSE, plugins |-> << >>, routes |-> FALSE]

\* Whether app.register throws for the unit loaded from a path (what the
\* unit does when it is registered is fixed by its code).
RegisterThrows(path) == path # << >> /\ path[Len(path)] = "s"

\* What a plugin directory holds: no index.mjs ("absent"), an index.mjs
\* whose export is not a function ("object"), or one that exports a
\* function.
PluginIndex(pluginPath) ==
    IF pluginPath # << >> /\ pluginPath[Len(pluginPath)] = "q" THEN "absent"
    ELSE IF pluginPath # << >> /\ pluginPath[Len(pluginPath)] = "r" THEN "object"
    ELSE "function"

\* A configuration object with no key.
NoCfg == [k \in {} |-> TRUE]
\* The contents a config.json can have.
CfgVariants == {NoCfg, [name |-> IdC], [active |-> FALSE]}
\* The contents the config.json of the root of PkgC can have.
PkgCfgVariants == {NoCfg, [isTrustedPath |-> FALSE]}
\* The sources whose config.json is rewritten while the process runs.
Editable == {DirB}
\* What a read of the config.json of a source can find: files are written
\* from outside the process, so each read of a rewritten file finds any of
\* its contents; the other sources have no config file.
ConfigFiles(source) ==
    IF source \in Editable THEN CfgVariants
    ELSE IF source = PkgC THEN PkgCfgVariants
    ELSE {NoCfg}
\* The disk at boot: deps are the names getNPMPluginNames finds in
\* package.json, dirs the entries fs.readdir finds under the tenants
\* directory.
Disk == [deps |-> <<PkgA>>, dirs |-> <<IdB>>]
\* The disks of the model: one package, and a tenant directory whose name
\* is or is not the package's name without its prefix.
Disks == {Disk, [deps |-> <<PkgA>>, dirs |-> <<IdA>>]}
\* The disks a server can start on: one package and one or two tenant
\* directories.
BootDisks == Disks \cup {[deps |-> <<PkgA>>, dirs |-> <<IdB, IdA>>]}

\* deepmerge(a, b) on objects whose values are scalars: b's keys win.
Merge(a, b) == [k \in (DOMAIN a) \cup (DOMAIN b) |-> IF k \in DOMAIN b THEN b[k] ELSE a[k]]

\* ------------------------------------------------------------ pure methods
\* ResourceLoader.loadConfig(configPath, defaults) with the config.json
\* found in configPath
LoadConfig(defaults, file) == Merge(defaults, file)

\* LocalTenantAdapter.loadConfig
LocalLoadConfig(source, defaults, file) == LoadConfig(defaults, file)

\* NPMTenantAdapter.loadConfig, for a package that resolves and imports
NPMLoadConfig(packageName, defaults, file) ==
    LET tenantConfig == PkgExport(packageName)
        c1 == IF ~tenantConfig.isFunction THEN Merge(defaults, tenantConfig.config) ELSE defaults
        c2 == Merge(c1, [path |-> PkgRoot(packageName),
                         packageName |-> packageName,
                         isTrustedPath |-> TRUE,
                         name |-> IF tenantConfig.NAME # NoId
                                  THEN tenantConfig.NAME
                                  ELSE StripPrefix(packageName)])
    IN  Merge(c2, LoadConfig(NoCfg, file))

\* TenantFactory.buildTenant, "Determine tenant ID"
DetermineTenantId(customTenantId, type, source) ==
    IF customTenantId # NoId THEN customTenantId
    ELSE IF type = "npm" THEN StripPrefix(source)
    ELSE Basename(source)

\* TenantFactory.buildTenant: the defaults handed to adapter.loadConfig
Defaults(tenantId, source) ==
    [id |-> tenantId, name |-> tenantId, active |-> TRUE, source |-> source]

\* TenantFactory.buildTenant: config.name || tenantId
ContextId(config, tenantId) ==
    IF config.name # NoId THEN config.name ELSE tenantId

\* No context: the null a build or a lookup yields.
NoCtx == [oid |-> 0]

\* TenantContext.constructor, once validateTenantId(id) has returned
NewContext(oid, id, config, type) ==
    [oid |-> oid, id |-> id, config |-> config, type |-> type,
     services |-> {}, plugins |-> {}, routes |-> {}, schemas |-> {},
     active |-> (config.active # FALSE)]

\* TenantRegistry.register without the capacity test.
Register_NoCapacityCheck(tenants, max, tenant) ==
    [threw |-> FALSE,
     tenants |-> [i \in (DOMAIN tenants) \cup {tenant.id} |->
                     IF i = tenant.id THEN tenant ELSE tenants[i]]]

\* TenantRegistry.register whose capacity test lets a present id through.
Register_OverwriteWhenFull(tenants, max, tenant) ==
    IF Cardinality(DOMAIN tenants) >= max /\ tenant.id \notin DOMAIN tenants
    THEN [threw |-> TRUE, tenants |-> tenants]
    ELSE Register_NoCapacityCheck(tenants, max, tenant)

\* TenantRegistry.register that keeps only the entry it adds.
Register_Replacing(tenants, max, tenant) ==
    IF Cardinality(DOMAIN tenants) >= max
    THEN [threw |-> TRUE, tenants |-> tenants]
    ELSE [threw |-> FALSE, tenants |-> [i \in {tenant.id} |-> tenant]]

\* TenantRegistry.register that drops the tenant of a full registry
\* without throwing.
Register_DropWhenFull(tenants, max, tenant) ==
    IF Cardinality(DOMAIN tenants) >= max
    THEN [threw |-> FALSE, tenants |-> tenants]
    ELSE Register_NoCapacityCheck(tenants, max, tenant)

\* TenantRegistry.register that keeps the context an id already has.
Register_FirstWins(tenants, max, tenant) ==
    IF Cardinality(DOMAIN tenants) >= max
    THEN [threw |-> TRUE, tenants |-> tenants]
    ELSE IF tenant.id \in DOMAIN tenants
    THEN [threw |-> FALSE, tenants |-> tenants]
    ELSE Register_NoCapacityCheck(tenants, max, tenant)

\* TenantRegistry.register: whether it threw, and the map afterwards.
Register(tenants, max, tenant) ==
    IF Cardinality(DOMAIN tenants) >= max
    THEN [threw |-> TRUE, tenants |-> tenants]
    ELSE [threw |-> FALSE,
          tenants |-> [i \in (DOMAIN tenants) \cup {tenant.id} |->
                          IF i = tenant.id THEN tenant ELSE tenants[i]]]

\* TenantRegistry.unregister that reports success whether or not the id
\* had an entry.
Unregister_AlwaysTrue(tenants, tenantId) ==
    [success |-> TRUE,
     tenants |-> [i \in (DOMAIN tenants) \ {tenantId} |-> tenants[i]]]

\* TenantRegistry.unregister: the value of Map.delete, and the map afterwards.
Unregister(tenants, tenantId) ==
    [success |-> tenantId \in DOMAIN tenants,
     tenants |-> [i \in (DOMAIN tenants) \ {tenantId} |-> tenants[i]]]

\* TenantRegistry.getTenant: this.tenants.get(tenantId) || null
GetTenant(tenants, tenantId) ==
    IF tenantId \in DOMAIN tenants THEN tenants[tenantId] ELSE NoCtx

\* TenantRegistry.getStats().total
StatsTotal(tenants) == Cardinality(DOMAIN tenants)

\* ------------------------------------------------------------ PathResolver
\* Paths handed to the resolver are sequences of single characters, of at
\* most MaxPathLen characters.
PathChars == {"/", ".", "b", "x"}
PathsUpTo(n) == UNION {[1..k -> PathChars] : k \in 0..n}

\* PathResolver.baseDir
BaseDir == <<"/", "b">>

\* The roots a caller registers with addTrustedPath.
TrustedRoots == {<<"/", "x">>, <<"/", "b", "/", "x">>}

\* path.isAbsolute
IsAbsolute(p) == Len(p) > 0 /\ Head(p) = "/"

\* The position of the first "/" of s at or after i, or 0.
RECURSIVE SlashFrom(_, _)
SlashFrom(s, i) ==
    IF i > Len(s) THEN 0
    ELSE IF s[i] = "/" THEN i
    ELSE SlashFrom(s, i + 1)

\* s.split("/")
RECURSIVE Split(_)
Split(s) ==
    LET i == SlashFrom(s, 1)
    IN  IF i = 0 THEN <<s>>
        ELSE <<SubSeq(s, 1, i - 1)>> \o Split(SubSeq(s, i + 1, Len(s)))

\* The normalisation of path.resolve: empty and "." segments are dropped,
\* ".." drops the segment before it and stays at the root.
RECURSIVE Normalize(_, _)
Normalize(segments, stack) ==
    IF segments = << >> THEN stack
    ELSE LET h == Head(segments)
         IN  IF h = << >> \/ h = <<".">> THEN Normalize(Tail(segments), stack)
             ELSE IF h = <<".", ".">>
             THEN Normalize(Tail(segments),
                            IF stack = << >> THEN stack
                            ELSE SubSeq(stack, 1, Len(stack) - 1))
             ELSE Normalize(Tail(segments), Append(stack, h))

\* "/" + segments.join("/")
RECURSIVE Join(_)
Join(segments) ==
    IF segments = << >> THEN << >>
    ELSE <<"/">> \o Head(segments) \o Join(Tail(segments))

\* path.resolve(from, to)
PathResolve(from, to) ==
    LET segments == IF IsAbsolute(to) THEN Split(to) ELSE Split(from) \o Split(to)
        stack == Normalize(segments, << >>)
    IN  IF stack = << >> THEN <<"/">> ELSE Join(stack)

\* String.prototype.startsWith
StartsWith(s, prefix) ==
    Len(prefix) <= Len(s) /\ SubSeq(s, 1, Len(prefix)) = prefix

\* PathResolver.isTrustedPath that compares the path as given, without
\* path.resolve.
IsTrustedPath_NoResolve(trustedPackagePaths, filePath) ==
    \E trustedPath \in trustedPackagePaths : StartsWith(filePath, trustedPath)

\* PathResolver.isTrustedPath
IsTrustedPath(trustedPackagePaths, filePath) ==
    \E trustedPath \in trustedPackagePaths :
        StartsWith(PathResolve(BaseDir, filePath), trustedPath)

\* No call of resolvePath has returned.
NoResult == [threw |-> FALSE, path |-> << >>, done |-> FALSE]

\* PathResolver.resolvePath that resolves an absolute path and applies
\* the base directory boundary to it, as it does to a relative one.
ResolvePath_BoundAbsolute(trustedPackagePaths, relativePath, allowTrusted) ==
    LET resolved == PathResolve(BaseDir, relativePath)
    IN  IF ~StartsWith(resolved, BaseDir) /\ ~IsTrustedPath(trustedPackagePaths, resolved)
        THEN [threw |-> TRUE, path |-> << >>, done |-> TRUE]
        ELSE [threw |-> FALSE, path |-> resolved, done |-> TRUE]

\* PathResolver.resolvePath(relativePath, {allowTrusted})
ResolvePath(trustedPackagePaths, relativePath, allowTrusted) ==
    LET resolved == PathResolve(BaseDir, relativePath)
    IN  IF IsAbsolute(relativePath)
        THEN [threw |-> FALSE, path |-> relativePath, done |-> TRUE]
        ELSE IF ~StartsWith(resolved, BaseDir) /\ ~IsTrustedPath(trustedPackagePaths, resolved)
        THEN [threw |-> TRUE, path |-> << >>, done |-> TRUE]
        ELSE [threw |-> FALSE, path |-> resolved, done |-> TRUE]

\* No call of resolvePath is under way.
NoPathCall == [relativePath |-> << >>, allowTrusted |-> FALSE, result |-> NoResult]

\* ---------------------------------------------------------- service files
\* The files fast-glob can find below a services directory ("**/*.{js,mjs}"),
\* relative to it.
UserJs == <<"User", ".", "js">>
UserMjs == <<"User", ".", "mjs">>
SubUserJs == <<"sub", "/", "User", ".", "js">>
OrderJs == <<"Order", ".", "js">>
ServiceFilePool == {UserJs, UserMjs, SubUserJs, OrderJs}

\* The listings of at most n files, in any order.
Listings(n) ==
    {s \in UNION {[1..k -> ServiceFilePool] : k \in 0..n} :
        \A i, j \in 1..Len(s) : i # j => s[i] # s[j]}

\* What fast-glob finds below the services directories of the tenants.
ServiceListing(servicesPath) == <<<<"UserService", ".", "js">>>>

\* The index of the last "." of s, 0 when there is none.
LastDot(s) ==
    LET at == {i \in 1..Len(s) : s[i] = "."}
    IN  IF at = {} THEN 0 ELSE CHOOSE i \in at : \A j \in at : j <= i

\* path.basename(file, path.extname(file))
ServiceName(file) ==
    LET base == Basename(file)
        dot == LastDot(base)
    IN  IF dot <= 1 THEN base ELSE SubSeq(base, 1, dot - 1)

\* The file loop of loadServices that gives up at the first file that
\* fails.
RECURSIVE LoadServiceFiles_Abort(_, _, _)
LoadServiceFiles_Abort(serviceFiles, broken, services) ==
    IF serviceFiles = << >> \/ Head(serviceFiles) \in broken THEN services
    ELSE LET serviceName == ServiceName(Head(serviceFiles))
         IN  LoadServiceFiles_Abort(Tail(serviceFiles), broken,
                 [k \in (DOMAIN services) \cup {serviceName} |->
                     IF k = serviceName THEN Head(serviceFiles) ELSE services[k]])

\* The file loop of loadServices: broken are the files whose import or
\* instantiation throws; the service made from a file is named by the file.
RECURSIVE LoadServiceFiles(_, _, _)
LoadServiceFiles(serviceFiles, broken, services) ==
    IF serviceFiles = << >> THEN services
    ELSE LET file == Head(serviceFiles)
             serviceName == ServiceName(file)
         IN  LoadServiceFiles(Tail(serviceFiles), broken,
                 IF file \in broken THEN services
                 ELSE [k \in (DOMAIN services) \cup {serviceName} |->
                          IF k = serviceName THEN file ELSE services[k]])

\* ResourceLoader.loadServices after a cache miss.  dir is "traversal"
\* when resolvePath throws, "missing" when pathExists is false, else "ok";
\* cached tells whether the mapping was stored in loadedResources.
LoadServices(dir, serviceFiles, broken) ==
    IF dir # "ok"
    THEN [threw |-> FALSE, services |-> [k \in {} |-> << >>], cached |-> FALSE]
    ELSE [threw |-> FALSE,
          services |-> LoadServiceFiles(serviceFiles, broken, [k \in {} |-> << >>]),
          cached |-> TRUE]

\* ------------------------------------------------------- config merging
\* A configuration value with its JavaScript type: a scalar, an array of
\* scalars, or an object (a function from keys to values).
Str(s) == [t |-> "str", v |-> s]
Arr(q) == [t |-> "arr", v |-> q]
Obj(f) == [t |-> "obj", v |-> f]

\* isMergeableObject of deepmerge: arrays and plain objects.
IsMergeable(x) == x.t \in {"arr", "obj"}

\* merge(x, y) of deepmerge 4 called without options, as loadConfig calls
\* it: two arrays are concatenated (the default arrayMerge), two objects
\* are merged key by key, a key of y whose value is mergeable and that x
\* has too being merged recursively; in every other case y's value wins.
RECURSIVE DeepMerge(_, _)
DeepMerge(x, y) ==
    IF x.t = "arr" /\ y.t = "arr"
    THEN Arr(x.v \o y.v)
    ELSE IF x.t = "obj" /\ y.t = "obj"
    THEN Obj([k \in (DOMAIN x.v) \cup (DOMAIN y.v) |->
                IF k \notin DOMAIN y.v THEN x.v[k]
                ELSE IF k \in DOMAIN x.v /\ IsMergeable(y.v[k])
                THEN DeepMerge(x.v[k], y.v[k])
                ELSE y.v[k]])
    ELSE y

\* The configuration objects of the model: scalars, arrays, nested
\* objects, and a key that is an object in one and a scalar in another.
ConfigPool ==
    {Obj(NoCfg),
     Obj([name |-> Str("x"), tags |-> Arr(<<"x">>)]),
     Obj([tags |-> Arr(<<"y">>)]),
     Obj([db |-> Obj([host |-> Str("x"), tags |-> Arr(<<"x">>)])]),
     Obj([db |-> Obj([port |-> Str("y"), tags |-> Arr(<<"y">>)]), name |-> Str("y")]),
     Obj([db |-> Str("x")])}

\* loadConfig whose loop ends at the first file that fails to load.
RECURSIVE LoadConfigFiles_AbortOnFailure(_, _, _, _)
LoadConfigFiles_AbortOnFailure(config, configFiles, broken, i) ==
    IF i > Len(configFiles) THEN config
    ELSE IF i \in broken THEN config
    ELSE LoadConfigFiles_AbortOnFailure(DeepMerge(config, configFiles[i]), configFiles, broken, i + 1)

\* The for loop of ResourceLoader.loadConfig over configFiles from file i
\* on: the content of a file is merged into config, a file whose read,
\* parse or import throws (its index is in broken) is skipped by the
\* catch block of the loop.
RECURSIVE LoadConfigFiles(_, _, _, _)
LoadConfigFiles(config, configFiles, broken, i) ==
    IF i > Len(configFiles) THEN config
    ELSE IF i \in broken THEN LoadConfigFiles(config, configFiles, broken, i + 1)
    ELSE LoadConfigFiles(DeepMerge(config, configFiles[i]), configFiles, broken, i + 1)

\* ResourceLoader.loadConfig(configPath, defaults).  dir is "traversal"
\* when resolvePath throws (the outer catch returns defaults), "missing"
\* when the directory does not exist (fast-glob finds no file), else
\* "ok" with the files fast-glob found.
LoadConfigDir(dir, defaults, configFiles, broken) ==
    IF dir # "ok"
    THEN [threw |-> FALSE, config |-> defaults]
    ELSE [threw |-> FALSE, config |-> LoadConfigFiles(defaults, configFiles, broken, 1)]

\* ------------------------------------------------ tenant identification
\* The fallback id of the strategy and of the registry.
DefaultTenantId == <<"default-tenant">>

\* The request descriptors: hostname and url are NoId when undefined,
\* hasHeaders tells whether request.headers is an object, xTenantId and
\* xCustomTenant are the values of the headers x-tenant-id and
\* x-custom-tenant (NoId when absent).
Hostnames == {NoId, <<"localhost">>, <<"a", ".", "x">>, <<"a", "!", ".", "x">>}
Urls ==
    {NoId, <<"/">>, <<"/", "health">>, <<"/", "api", "/", "b">>,
     <<"/", "b", "/", "x">>, <<"/", "b", ".", "x">>}
HeaderValues == {NoId, <<"c">>, <<"c", "!">>}
Requests ==
    [hostname : Hostnames, url : Urls, hasHeaders : BOOLEAN,
     xTenantId : HeaderValues, xCustomTenant : {NoId, <<"b">>}]

\* request.hostname?.match(/^([^.]+)\./): the captured label, NoId when
\* there is no match.
HostnameMatch(hostname) ==
    LET dots == {i \in 1..Len(hostname) : hostname[i] = "."}
        first == IF dots = {} THEN 0 ELSE CHOOSE i \in dots : \A j \in dots : i <= j
    IN  IF first >= 2 THEN SubSeq(hostname, 1, first - 1) ELSE NoId

\* request.url?.match(/^\/([^/]+)/): the captured segment, NoId when there
\* is no match.
PathMatch(url) ==
    IF Len(url) < 2 \/ url[1] # "/" \/ url[2] = "/" THEN NoId
    ELSE LET next == SlashFrom(url, 2)
         IN  SubSeq(url, 2, IF next = 0 THEN Len(url) ELSE next - 1)

\* What SecurityValidator.validateTenantId(id) gives inside the try of
\* extractTenantId: the id, or the catch's fallback when it throws.
ValidatedOrDefault(id) == IF ValidTenantId(id) THEN id ELSE DefaultTenantId

\* MultiSourceTenantStrategy.extractTenantId that looks at the header
\* before the hostname and the url.
ExtractTenantId_HeaderFirst(request) ==
    LET hostnameMatch == HostnameMatch(request.hostname)
        pathMatch == PathMatch(request.url)
    IN  IF request.hasHeaders /\ request.xTenantId # NoId
        THEN ValidatedOrDefault(request.xTenantId)
        ELSE IF hostnameMatch # NoId THEN ValidatedOrDefault(hostnameMatch)
        ELSE IF pathMatch # NoId /\ pathMatch # <<"api">> /\ pathMatch # <<"health">>
        THEN ValidatedOrDefault(pathMatch)
        ELSE DefaultTenantId

\* MultiSourceTenantStrategy.extractTenantId that goes on to the next
\* source when a candidate is not a valid identifier.
ExtractTenantId_FallThrough(request) ==
    LET hostnameMatch == HostnameMatch(request.hostname)
        pathMatch == PathMatch(request.url)
    IN  IF ValidTenantId(hostnameMatch) THEN hostnameMatch
        ELSE IF ValidTenantId(pathMatch) /\ pathMatch # <<"api">> /\ pathMatch # <<"health">>
        THEN pathMatch
        ELSE IF ~request.hasHeaders THEN DefaultTenantId
        ELSE ValidatedOrDefault(request.xTenantId)

\* MultiSourceTenantStrategy.extractTenantId(request); the read of
\* request.headers["x-tenant-id"] throws inside the try when
\* request.headers is undefined.
ExtractTenantId(request) ==
    LET hostnameMatch == HostnameMatch(request.hostname)
        pathMatch == PathMatch(request.url)
    IN  IF hostnameMatch # NoId THEN ValidatedOrDefault(hostnameMatch)
        ELSE IF pathMatch # NoId /\ pathMatch # <<"api">> /\ pathMatch # <<"health">>
        THEN ValidatedOrDefault(pathMatch)
        ELSE IF ~request.hasHeaders THEN DefaultTenantId
        ELSE IF request.xTenantId # NoId THEN ValidatedOrDefault(request.xTenantId)
        ELSE DefaultTenantId

\* The strategies that can be installed: the default one, the base class
\* (its extractTenantId throws) and the header strategy of the README.
Strategies == {"MultiSource", "Base", "HeaderBased"}

\* strategy.extractTenantId(request)
StrategyExtract(strategy, request) ==
    IF strategy = "MultiSource" THEN [threw |-> FALSE, id |-> ExtractTenantId(request)]
    ELSE IF strategy = "Base" THEN [threw |-> TRUE, id |-> NoId]
    ELSE IF ~request.hasHeaders THEN [threw |-> TRUE, id |-> NoId]
    ELSE [threw |-> FALSE,
          id |-> IF request.xCustomTenant # NoId THEN request.xCustomTenant
                 ELSE <<"default">>]

\* TenantRegistry.getTenantIdFromRequest without its catch.
GetTenantIdFromRequest_NoCatch(strategy, request) == StrategyExtract(strategy, request)

\* TenantRegistry.getTenantIdFromRequest(request)
GetTenantIdFromRequest(strategy, request) ==
    LET r == StrategyExtract(strategy, request)
    IN  IF r.threw THEN [threw |-> FALSE, id |-> DefaultTenantId] ELSE r

\* No call of a self-contained method is under way.
NoUnitCall == [op |-> "none"]

\* ------------------------------------------------------ the plugin manager
\* SecurityValidator.validatePluginName: TRUE when it returns (its value
\* is then the input itself), FALSE when it throws.
ValidPluginName(pluginName) ==
    pluginName # NoId /\ Sanitize(pluginName) = pluginName /\ Len(Sanitize(pluginName)) # 0

\* The plugin names of the model: a plugin whose module exports a
\* function, one whose module exports an object, one that is not
\* installed, and a name validatePluginName rejects.
PluginNames == {IdA, IdB, IdC, IdBad}
\* The options objects callers pass; "{}" is the default parameter, which
\* the batch loaders pass for a name without options.
PluginOptions == {"o1", "o2"}

\* `local:${sanitizedName}` and `npm:${pluginName}`
PluginCacheKey(kind, name) == <<kind, name>>

\* pathExists(<baseDir>/plugins/<name>/index.mjs)
PluginPathExists(name) == name \in {IdA, IdB}

\* typeof (pluginModule.default || pluginModule) after the import of the
\* plugin, "throws" when the import rejects.
PluginModule(kind, name) ==
    IF name = IdA THEN "function"
    ELSE IF name = IdB THEN "object"
    ELSE "throws"

\* The options loadLocalPlugin and loadNPMPlugin hand to app.register:
\* { ...options, fastify: app } for a local plugin, options for a package.
RegisterOptions(kind, options) ==
    IF kind = "local" THEN <<options, "fastify">> ELSE <<options>>

\* options[pluginName] || {} in loadLocalPlugins; loadNPMPlugins passes
\* no options.
BatchOptions(kind, name) ==
    IF kind = "local" /\ name = IdA THEN "o1" ELSE "{}"

\* A PluginManager call that runs nothing.  pc is the await the call is
\* suspended at; batch tells whether loadLocalPlugins or loadNPMPlugins
\* made the call, with the names still to load in queue (the current one
\* first), names the whole list, and results and successCount as the
\* batch loader holds them.
IdlePluginTask ==
    [pc |-> "idle", kind |-> "none", name |-> NoId, options |-> "{}",
     batch |-> FALSE, names |-> << >>, queue |-> << >>, results |-> << >>,
     successCount |-> 0]

\* Nothing has returned yet.
NoPluginRet ==
    [op |-> "none", kind |-> "none", name |-> NoId, success |-> FALSE, threw |-> FALSE,
     error |-> "", successCount |-> 0, total |-> 0, results |-> << >>, names |-> << >>]

\* The cache keys of the model.
PluginKeys == {PluginCacheKey(k, n) : k \in {"local", "npm"}, n \in {IdA, IdB, IdC, IdBad}}

\* A freshly constructed PluginManager: pluginCache holds the cached
\* keys, imported how many times the module of a key was imported,
\* reimported the keys imported while already cached, registered what
\* app.register was called with.
NoPluginManager ==
    [pluginCache |-> {}, imported |-> [k \in PluginKeys |-> 0], reimported |-> {},
     registered |-> {},
     calls |-> 0, task |-> [t \in Tasks |-> IdlePluginTask], ret |-> NoPluginRet]

\* loadLocalPlugin and loadNPMPlugin that never look into the cache.
FirstAwait_NoCache(cache, kind, name) ==
    IF kind = "local" /\ ~ValidPluginName(name) THEN "threw"
    ELSE IF kind = "local" THEN "pathExists"
    ELSE "import"

\* The await a call of loadLocalPlugin or loadNPMPlugin first suspends
\* at, "threw" when validatePluginName throws before the try block.
FirstAwait(cache, kind, name) ==
    IF kind = "local" /\ ~ValidPluginName(name) THEN "threw"
    ELSE IF PluginCacheKey(kind, name) \in cache THEN "registerCached"
    ELSE IF kind = "local" THEN "pathExists"
    ELSE "import"

\* The entry of results for a name: { plugin: pluginName, ...result }
ResultEntry(name, success, error) ==
    [plugin |-> name, success |-> success, error |-> error]

\* A batch loader that stops at the first name whose load throws.
RECURSIVE BatchNext_StopOnThrow(_, _)
BatchNext_StopOnThrow(tk, cache) ==
    IF tk.queue = << >>
    THEN [tk EXCEPT !.pc = "return"]
    ELSE LET name == Head(tk.queue)
             first == FirstAwait(cache, tk.kind, name)
         IN  IF first = "threw"
             THEN [tk EXCEPT !.pc = "return", !.queue = << >>,
                             !.results = Append(@, ResultEntry(name, FALSE, "invalid characters"))]
             ELSE [tk EXCEPT !.pc = first, !.name = name,
                             !.options = BatchOptions(tk.kind, name)]

\* The loop of loadLocalPlugins and loadNPMPlugins from the top of an
\* iteration to the next await: a name whose load throws gets its entry
\* in the catch block and the loop goes on; the loop ends at "return".
RECURSIVE BatchNext(_, _)
BatchNext(tk, cache) ==
    IF tk.queue = << >>
    THEN [tk EXCEPT !.pc = "return"]
    ELSE LET name == Head(tk.queue)
             first == FirstAwait(cache, tk.kind, name)
         IN  IF first = "threw"
             THEN BatchNext([tk EXCEPT !.queue = Tail(@),
                                !.results = Append(@, ResultEntry(name, FALSE, "invalid characters"))],
                            cache)
             ELSE [tk EXCEPT !.pc = first, !.name = name,
                             !.options = BatchOptions(tk.kind, name)]

\* What a batch loader returns: { successCount, total, results }
BatchReturn(tk) ==
    [NoPluginRet EXCEPT !.op = "batch", !.kind = tk.kind, !.names = tk.names,
                        !.successCount = tk.successCount,
                        !.total = Len(tk.names), !.results = tk.results]

\* The plugin manager pm after the call of task t got { success, error }
\* from loadLocalPlugin or loadNPMPlugin: a single call returns it, a
\* batch loader pushes its entry, counts it and goes on with its loop.
PluginResult(pm, t, success, error) ==
    LET tk == pm.task[t]
        nxt == BatchNext([tk EXCEPT !.queue = Tail(@),
                             !.results = Append(@, ResultEntry(tk.name, success, error)),
                             !.successCount = IF success THEN @ + 1 ELSE @],
                         pm.pluginCache)
    IN  IF ~tk.batch
        THEN [pm EXCEPT !.task[t] = IdlePluginTask,
                        !.ret = [NoPluginRet EXCEPT !.op = "single", !.kind = tk.kind,
                                    !.name = tk.name, !.success = success, !.error = error]]
        ELSE IF nxt.pc = "return"
        THEN [pm EXCEPT !.task[t] = IdlePluginTask, !.ret = BatchReturn(nxt)]
        ELSE [pm EXCEPT !.task[t] = nxt]

VARIABLES
    registry,        \* TenantRegistry.tenants: id -> context
    maxTenants,      \* TenantRegistry.maxTenants
    disk,            \* package.json's dependencies and the tenants directory
    trusted,         \* PathResolver.trustedPackagePaths
    loadedResources, \* ResourceLoader.loadedResources: cache key -> services
    app,             \* what was registered with the host application
    loadedOnce,      \* (kind, path) pairs whose source a loader has loaded
    loadedAgain,     \* pairs loaded from source again after a finished load
    nextOid,         \* identity of the next constructed TenantContext
    calls,           \* manager operations called so far
    task,            \* the asynchronous operations in flight
    ret,             \* what the operation that returned last returned
    pathCall,        \* a call of PathResolver.resolvePath and its outcome
    unitCall,        \* a call of a method that awaits no other operation of
                     \* the model (loadServices on a listing, the strategy,
                     \* getTenantIdFromRequest) and its outcome
    pluginManager    \* the PluginManager: its cache, its calls in flight,
                     \* what it imported and what it registered

vars == <<registry, maxTenants, disk, trusted, loadedResources, app,
          loadedOnce, loadedAgain, nextOid, calls, task, ret, pathCall, unitCall,
          pluginManager>>

\* ------------------------------------------------------------------- tasks
\* A task that runs nothing.  pc is the suspension point a task is at.
IdleTask ==
    [op |-> "none", pc |-> "idle", src |-> NoId, cid |-> NoId,
     adapter |-> "none", ctx |-> NoCtx, id |-> NoId, old |-> 0,
     late |-> FALSE, todo |-> << >>, phase |-> "none", queue |-> << >>,
     tally |-> [local |-> 0, npm |-> 0, failed |-> 0]]

\* Nothing has returned yet.  op is the operation the caller invoked; result
\* is what loadTenant, reloadTenant or unloadTenant returned ("ctx" stands
\* for the context in the ctx field, "threw" for a thrown error), why is
\* the error or the skip behind a null, and ctx is the context the build
\* made, returned or not; all is "running" while the
\* loadAllTenants that called loadTenant goes on, and its return value
\* once it has returned, with its tallies in tally.
NoRet ==
    [op |-> "none", id |-> NoId, result |-> "none", why |-> "", ctx |-> NoCtx,
     all |-> "none", tally |-> [local |-> 0, npm |-> 0, failed |-> 0]]

\* A task is free when it runs nothing; a caller's new operation takes the
\* first free task.
Free(t) ==
    /\ task[t].pc = "idle"
    /\ calls < MaxCalls
    /\ t = "t2" => task["t1"].pc # "idle"

\* loadResources that looks for the routes directory before the others.
StageAfter_RoutesFirst(n, root) ==
    LET L == Layout(root)
    IN  IF n < 4 /\ L.routes THEN "routes"
        ELSE IF n < 1 /\ L.schemas THEN "schemas"
        ELSE IF n < 2 /\ L.services THEN "services"
        ELSE IF n < 3 /\ Len(L.plugins) > 0 THEN "plugins"
        ELSE "register"

\* The first resource stage, strictly after stage number n, whose directory
\* exists under root (LocalTenantAdapter.loadResources and
\* NPMTenantAdapter.loadPackageResources test each with pathExists).
StageAfter(n, root) ==
    LET L == Layout(root)
    IN  IF n < 1 /\ L.schemas THEN "schemas"
        ELSE IF n < 2 /\ L.services THEN "services"
        ELSE IF n < 3 /\ Len(L.plugins) > 0 THEN "plugins"
        ELSE IF n < 4 /\ L.routes THEN "routes"
        ELSE "register"

\* tenantContext.config.path || tenantContext.config.source
TenantPath(config) ==
    IF "path" \in DOMAIN config /\ config.path # NoId THEN config.path ELSE config.source

\* The task record at the first suspension point of
\* loadTenant(app, source, customTenantId): the local adapter's canHandle.
BeginLoad(tk, source, customTenantId) ==
    [tk EXCEPT !.pc = "probeLocal", !.src = source, !.cid = customTenantId,
               !.adapter = "none", !.ctx = NoCtx, !.late = FALSE, !.todo = << >>]

\* The source and the explicit id loadAllTenants passes to loadTenant for
\* the head of its queue.
AllSource(tk) == IF tk.phase = "npm" THEN Head(tk.queue) ELSE TenantDirPath(Head(tk.queue))
AllCustomId(tk) == IF tk.phase = "npm" THEN NoId ELSE Head(tk.queue)

\* loadAllTenants' return value: totalLoaded > 0
AllResult(tally) == IF tally.local + tally.npm > 0 THEN "true" ELSE "false"

\* loadAllTenants that gives up at the first source whose loadTenant
\* returns null.
AllAdvance_AbortOnFailure(tk, loaded) ==
    LET tl == IF loaded
              THEN [tk.tally EXCEPT ![tk.phase] = @ + 1]
              ELSE [tk.tally EXCEPT !.failed = @ + 1]
        rest == [tk EXCEPT !.tally = tl, !.queue = Tail(tk.queue), !.ctx = NoCtx]
    IN  IF ~loaded
        THEN [IdleTask EXCEPT !.tally = tl]
        ELSE IF rest.queue # << >>
        THEN BeginLoad(rest, AllSource(rest), AllCustomId(rest))
        ELSE IF tk.phase = "npm"
        THEN [rest EXCEPT !.pc = "allLocal", !.src = NoId, !.cid = NoId,
                          !.adapter = "none", !.queue = << >>]
        ELSE [IdleTask EXCEPT !.tally = tl]

\* TenantManager.loadAllTenants from the return of one loadTenant to the
\* next suspension point: the tally, then the next source of the phase,
\* the local phase, or the return.
AllAdvance(tk, loaded) ==
    LET tl == IF loaded
              THEN [tk.tally EXCEPT ![tk.phase] = @ + 1]
              ELSE [tk.tally EXCEPT !.failed = @ + 1]
        rest == [tk EXCEPT !.tally = tl, !.queue = Tail(tk.queue), !.ctx = NoCtx]
    IN  IF rest.queue # << >>
        THEN BeginLoad(rest, AllSource(rest), AllCustomId(rest))
        ELSE IF tk.phase = "npm"
        THEN [rest EXCEPT !.pc = "allLocal", !.src = NoId, !.cid = NoId,
                          !.adapter = "none", !.queue = << >>]
        ELSE [IdleTask EXCEPT !.tally = tl]

\* The task record when its loadTenant returns: loadTenant and
\* reloadTenant hand the value to their caller, loadAllTenants goes on
\* with its loop.
Returned(tk, loaded) ==
    IF tk.op = "loadAll" THEN AllAdvance(tk, loaded) ELSE IdleTask

\* What is returned when the loadTenant of task record tk returns res.
Return(tk, res, why) ==
    LET nxt == Returned(tk, res = "ctx")
    IN  [op |-> tk.op, id |-> tk.id, result |-> res, why |-> why,
         ctx |-> tk.ctx,
         all |-> IF tk.op # "loadAll" THEN "none"
                 ELSE IF nxt.pc = "idle" THEN AllResult(nxt.tally) ELSE "running",
         tally |-> nxt.tally]

\* The read log: a loader loads the source of (kind, path); late tells
\* whether the call began after a load of that pair had finished.
LogRead(kind, path, late) ==
    /\ loadedOnce' = loadedOnce \cup {<<kind, path>>}
    /\ loadedAgain' = IF late THEN loadedAgain \cup {<<kind, path>>} ELSE loadedAgain

\* The task record entering a resource stage: the plugins stage starts
\* with the fs.readdir listing of the plugins directory.
Enter(tk, stage, root) ==
    [tk EXCEPT !.pc = stage,
               !.todo = IF stage = "plugins" THEN Layout(root).plugins ELSE << >>]

\* `services:${servicesPath}`
CacheKey(servicesPath) == <<"services:">> \o servicesPath

\* The names of the mapping loadServices builds from the files of a
\* services directory.
ServicesOf(servicesPath) ==
    DOMAIN LoadServices("ok", ServiceListing(servicesPath), {}).services

\* ----------------------------------------------------------------- actions
Init ==
    /\ registry = [i \in {} |-> NoCtx]
    /\ maxTenants = MaxTenants
    /\ disk \in Disks
    /\ trusted = {}
    /\ loadedResources = [k \in {} |-> {}]
    /\ app = {}
    /\ loadedOnce = {}
    /\ loadedAgain = {}
    /\ nextOid = 1
    /\ calls = 0
    /\ task = [t \in Tasks |-> IdleTask]
    /\ ret = NoRet
    /\ pluginManager = NoPluginManager
    /\ pathCall = NoPathCall
    /\ unitCall = NoUnitCall

\* The loadTenant of task t returns res to its caller.
Finish(t, res, why) ==
    /\ task' = [task EXCEPT ![t] = Returned(task[t], res = "ctx")]
    /\ ret' = Return(task[t], res, why)

\* TenantManager.loadTenant(app, source, customTenantId), to its first await
LoadTenant(t, source, customTenantId) ==
    /\ Free(t)
    /\ calls' = calls + 1
    /\ task' = [task EXCEPT ![t] = BeginLoad([IdleTask EXCEPT !.op = "load"], source, customTenantId)]
    /\ UNCHANGED <<pathCall, unitCall, pluginManager, registry, maxTenants, disk, trusted, loadedResources, app,
                   loadedOnce, loadedAgain, nextOid, ret>>

\* TenantManager.reloadTenant that replaces the entry only when the
\* rebuilt context is registered (no unregister before the rebuild).
ReloadTenant_NoUnregister(t, tenantId) ==
    LET existingTenant == GetTenant(registry, tenantId)
    IN  /\ Free(t)
        /\ calls' = calls + 1
        /\ IF existingTenant = NoCtx
           THEN /\ ret' = [NoRet EXCEPT !.op = "reload", !.id = tenantId,
                                        !.result = "threw", !.why = "TenantNotFound"]
                /\ UNCHANGED task
           ELSE /\ task' = [task EXCEPT ![t] =
                                BeginLoad([IdleTask EXCEPT !.op = "reload", !.id = tenantId,
                                                           !.old = existingTenant.oid],
                                          existingTenant.config.source, tenantId)]
                /\ UNCHANGED ret
        /\ UNCHANGED <<pathCall, unitCall, pluginManager, registry, maxTenants, disk, trusted, loadedResources, app,
                       loadedOnce, loadedAgain, nextOid>>

\* TenantManager.reloadTenant without the test of the lookup: an absent
\* id is unregistered and rebuilt from no source.
ReloadTenant_NoLookupTest(t, tenantId) ==
    LET existingTenant == GetTenant(registry, tenantId)
    IN  /\ Free(t)
        /\ calls' = calls + 1
        /\ registry' = Unregister(registry, tenantId).tenants
        /\ task' = [task EXCEPT ![t] =
                        BeginLoad([IdleTask EXCEPT !.op = "reload", !.id = tenantId,
                                                   !.old = existingTenant.oid],
                                  IF existingTenant = NoCtx THEN NoId
                                  ELSE existingTenant.config.source,
                                  tenantId)]
        /\ UNCHANGED <<pathCall, unitCall, pluginManager, maxTenants, disk, trusted, loadedResources, app,
                       loadedOnce, loadedAgain, nextOid, ret>>

\* TenantManager.reloadTenant(app, tenantId), to its first await: the
\* lookup, the throw or the unregister, and the call of loadTenant.
ReloadTenant(t, tenantId) ==
    LET existingTenant == GetTenant(registry, tenantId)
    IN  /\ Free(t)
        /\ calls' = calls + 1
        /\ IF existingTenant = NoCtx
           THEN /\ ret' = [NoRet EXCEPT !.op = "reload", !.id = tenantId,
                                        !.result = "threw", !.why = "TenantNotFound"]
                /\ UNCHANGED <<registry, task>>
           ELSE /\ registry' = Unregister(registry, tenantId).tenants
                /\ task' = [task EXCEPT ![t] =
                                BeginLoad([IdleTask EXCEPT !.op = "reload", !.id = tenantId,
                                                           !.old = existingTenant.oid],
                                          existingTenant.config.source, tenantId)]
                /\ UNCHANGED ret
        /\ UNCHANGED <<pathCall, unitCall, pluginManager, maxTenants, disk, trusted, loadedResources, app,
                       loadedOnce, loadedAgain, nextOid>>

\* TenantManager.unloadTenant(tenantId)
UnloadTenant(t, tenantId) ==
    LET r == Unregister(registry, tenantId)
    IN  /\ Free(t)
        /\ calls' = calls + 1
        /\ registry' = r.tenants
        /\ ret' = [NoRet EXCEPT !.op = "unload", !.id = tenantId,
                                !.result = IF r.success THEN "true" ELSE "false"]
        /\ UNCHANGED <<pathCall, unitCall, pluginManager, maxTenants, disk, trusted, loadedResources, app,
                       loadedOnce, loadedAgain, nextOid, task>>

\* TenantManager.loadAllTenants(app, config), to its first await;
\* npmPattern tells whether config.tenants.npmPattern is set.
LoadAllTenants(t, npmPattern) ==
    /\ Free(t)
    /\ calls' = calls + 1
    /\ task' = [task EXCEPT ![t] = [IdleTask EXCEPT !.op = "loadAll",
                    !.pc = IF npmPattern THEN "allNpm" ELSE "allLocal"]]
    /\ UNCHANGED <<pathCall, unitCall, pluginManager, registry, maxTenants, disk, trusted, loadedResources, app,
                   loadedOnce, loadedAgain, nextOid, ret>>

\* loadAllTenants that walks the local directories where the package
\* phase should begin.
AllNpmPhase_LocalFirst(t) ==
    LET tk == [task[t] EXCEPT !.phase = "local", !.queue = disk.dirs]
    IN  /\ task[t].pc = "allNpm"
        /\ task' = [task EXCEPT ![t] =
                        IF tk.queue = << >> THEN [task[t] EXCEPT !.pc = "allLocal"]
                        ELSE BeginLoad(tk, AllSource(tk), AllCustomId(tk))]
        /\ UNCHANGED <<pathCall, unitCall, pluginManager, registry, maxTenants, disk, trusted, loadedResources, app,
                       loadedOnce, loadedAgain, nextOid, calls, ret>>

\* loadAllTenants after getNPMPluginNames: the package phase begins.
AllNpmPhase(t) ==
    LET tk == [task[t] EXCEPT !.phase = "npm", !.queue = disk.deps]
    IN  /\ task[t].pc = "allNpm"
        /\ task' = [task EXCEPT ![t] =
                        IF tk.queue = << >> THEN [task[t] EXCEPT !.pc = "allLocal"]
                        ELSE BeginLoad(tk, AllSource(tk), AllCustomId(tk))]
        /\ UNCHANGED <<pathCall, unitCall, pluginManager, registry, maxTenants, disk, trusted, loadedResources, app,
                       loadedOnce, loadedAgain, nextOid, calls, ret>>

\* loadAllTenants after pathExists(tenantsPath) and fs.readdir: the local
\* phase begins; with no directory it returns.
AllLocalPhase(t) ==
    LET tk == [task[t] EXCEPT !.phase = "local", !.queue = disk.dirs]
    IN  /\ task[t].pc = "allLocal"
        /\ IF tk.queue = << >>
           THEN /\ task' = [task EXCEPT ![t] = IdleTask]
                /\ ret' = [NoRet EXCEPT !.op = "loadAll", !.tally = tk.tally,
                                        !.all = AllResult(tk.tally)]
           ELSE /\ task' = [task EXCEPT ![t] = BeginLoad(tk, AllSource(tk), AllCustomId(tk))]
                /\ UNCHANGED ret
        /\ UNCHANGED <<pathCall, unitCall, pluginManager, registry, maxTenants, disk, trusted, loadedResources, app,
                       loadedOnce, loadedAgain, nextOid, calls>>

\* TenantFactory.createTenant with the package adapter first in its list.
ProbeLocal_NpmFirst(t) ==
    /\ task[t].pc = "probeLocal"
    /\ task' = [task EXCEPT ![t] =
                    IF PkgResolves(task[t].src)
                    THEN [task[t] EXCEPT !.adapter = "npm", !.pc = "loadConfig"]
                    ELSE IF LocalExists(task[t].src)
                    THEN [task[t] EXCEPT !.adapter = "local", !.pc = "loadConfig"]
                    ELSE [task[t] EXCEPT !.pc = "probeNpm"]]
    /\ UNCHANGED <<pathCall, unitCall, pluginManager, registry, maxTenants, disk, trusted, loadedResources, app,
                   loadedOnce, loadedAgain, nextOid, calls, ret>>

\* TenantFactory.createTenant: LocalTenantAdapter.canHandle(source)
ProbeLocal(t) ==
    /\ task[t].pc = "probeLocal"
    /\ task' = [task EXCEPT ![t] =
                    IF LocalExists(task[t].src)
                    THEN [task[t] EXCEPT !.adapter = "local", !.pc = "loadConfig"]
                    ELSE [task[t] EXCEPT !.pc = "probeNpm"]]
    /\ UNCHANGED <<pathCall, unitCall, pluginManager, registry, maxTenants, disk, trusted, loadedResources, app,
                   loadedOnce, loadedAgain, nextOid, calls, ret>>

\* TenantFactory.createTenant: NPMTenantAdapter.canHandle(source), whose
\* getModuleInfo trusts the package root; with no adapter left createTenant
\* throws and loadTenant returns null.
ProbeNpm(t) ==
    /\ task[t].pc = "probeNpm"
    /\ IF PkgResolves(task[t].src)
       THEN /\ trusted' = trusted \cup {PkgRoot(task[t].src)}
            /\ task' = [task EXCEPT ![t] = [task[t] EXCEPT !.adapter = "npm", !.pc = "loadConfig"]]
            /\ UNCHANGED ret
       ELSE /\ Finish(t, "null", "NoAdapterFound")
            /\ UNCHANGED trusted
    /\ UNCHANGED <<pathCall, unitCall, pluginManager, registry, maxTenants, disk, loadedResources, app,
                   loadedOnce, loadedAgain, nextOid, calls>>

\* TenantFactory.buildTenant that builds the context of an inactive
\* configuration too.
BuildHead_NoActiveCheck(customTenantId, type, source, file) ==
    LET tenantId == DetermineTenantId(customTenantId, type, source)
        config == IF type = "npm"
                  THEN NPMLoadConfig(source, Defaults(tenantId, source), file)
                  ELSE LocalLoadConfig(source, Defaults(tenantId, source), file)
        id == ContextId(config, tenantId)
    IN  [config |-> config, id |-> id,
         outcome |-> IF ~ValidTenantId(id) THEN "InvalidIdentifier" ELSE "ok"]

\* TenantFactory.buildTenant from the return of adapter.loadConfig to the
\* TenantContext constructor: the merged configuration, the id handed to
\* the constructor, and whether the build goes on ("ok"), is skipped
\* ("inactive") or fails in validateTenantId ("InvalidIdentifier").
BuildHead(customTenantId, type, source, file) ==
    LET tenantId == DetermineTenantId(customTenantId, type, source)
        config == IF type = "npm"
                  THEN NPMLoadConfig(source, Defaults(tenantId, source), file)
                  ELSE LocalLoadConfig(source, Defaults(tenantId, source), file)
        id == ContextId(config, tenantId)
    IN  [config |-> config, id |-> id,
         outcome |-> IF config.active = FALSE THEN "inactive"
                     ELSE IF ~ValidTenantId(id) THEN "InvalidIdentifier"
                     ELSE "ok"]

\* The directory whose config files adapter.loadConfig reads.
ConfigPath(type, source) == IF type = "npm" THEN PkgRoot(source) ELSE source

\* TenantFactory.buildTenant: adapter.loadConfig (which reads file), the
\* active test, the TenantContext constructor and the call of
\* adapter.loadResources up to its first await.
ConfigStep(t, file) ==
    LET tk == task[t]
        b == BuildHead(tk.cid, tk.adapter, tk.src, file)
        cpath == ConfigPath(tk.adapter, tk.src)
        ctx == NewContext(nextOid, b.id, b.config, tk.adapter)
    IN  /\ tk.pc = "loadConfig"
        /\ file \in ConfigFiles(tk.src)
        /\ LogRead("config", cpath, <<"config", cpath>> \in loadedOnce)
        /\ trusted' = IF tk.adapter = "npm" THEN trusted \cup {PkgRoot(tk.src)} ELSE trusted
        /\ IF b.outcome = "ok"
           THEN /\ nextOid' = nextOid + 1
                /\ task' = [task EXCEPT ![t] =
                                IF tk.adapter = "npm"
                                THEN [tk EXCEPT !.ctx = ctx, !.pc = "main"]
                                ELSE Enter([tk EXCEPT !.ctx = ctx],
                                           StageAfter(0, TenantPath(b.config)),
                                           TenantPath(b.config))]
                /\ UNCHANGED ret
           ELSE /\ Finish(t, "null", b.outcome)
                /\ UNCHANGED nextOid
        /\ UNCHANGED <<pathCall, unitCall, pluginManager, registry, maxTenants, disk, loadedResources, app, calls>>

\* NPMTenantAdapter.loadResources that enters loadPackageResources
\* without the test of config.path and config.isTrustedPath.
MainStep_NoTrustCheck(t) ==
    LET tk == task[t]
        config == tk.ctx.config
        packageName == config.packageName
        next == StageAfter(0, config.path)
    IN  /\ tk.pc = "main"
        /\ IF ~PkgExport(packageName).isFunction
           THEN /\ task' = [task EXCEPT ![t] = Enter(tk, next, config.path)]
                /\ UNCHANGED <<app, ret>>
           ELSE IF RegisterThrows(packageName)
           THEN /\ Finish(t, "null", "TenantBuildFailure")
                /\ UNCHANGED app
           ELSE /\ app' = app \cup {[what |-> "main", path |-> packageName, tenant |-> tk.ctx.id,
                                      prefix |-> <<"/">> \o tk.ctx.id]}
                /\ task' = [task EXCEPT ![t] =
                                Enter([tk EXCEPT !.ctx.plugins = @ \cup {packageName}],
                                      next, config.path)]
                /\ UNCHANGED ret
        /\ UNCHANGED <<pathCall, unitCall, pluginManager, registry, maxTenants, disk, trusted, loadedResources,
                       loadedOnce, loadedAgain, nextOid, calls>>

\* NPMTenantAdapter.loadResources: the import of the package, the
\* registration of a function export, and the entry into
\* loadPackageResources when the package root is trusted.
MainStep(t) ==
    LET tk == task[t]
        config == tk.ctx.config
        packageName == config.packageName
        next == IF config.path # NoId /\ config.isTrustedPath
                THEN StageAfter(0, config.path) ELSE "register"
    IN  /\ tk.pc = "main"
        /\ IF ~PkgExport(packageName).isFunction
           THEN /\ task' = [task EXCEPT ![t] = Enter(tk, next, config.path)]
                /\ UNCHANGED <<app, ret>>
           ELSE IF RegisterThrows(packageName)
           THEN /\ Finish(t, "null", "TenantBuildFailure")
                /\ UNCHANGED app
           ELSE /\ app' = app \cup {[what |-> "main", path |-> packageName, tenant |-> tk.ctx.id,
                                      prefix |-> <<"/">> \o tk.ctx.id]}
                /\ task' = [task EXCEPT ![t] =
                                Enter([tk EXCEPT !.ctx.plugins = @ \cup {packageName}],
                                      next, config.path)]
                /\ UNCHANGED ret
        /\ UNCHANGED <<pathCall, unitCall, pluginManager, registry, maxTenants, disk, trusted, loadedResources,
                       loadedOnce, loadedAgain, nextOid, calls>>

\* loadResources, "Load schemas first": ResourceLoader.loadSchemas
SchemasStep(t) ==
    LET tk == task[t]
        root == TenantPath(tk.ctx.config)
        schemaPath == SubPath(root, "schemas")
    IN  /\ tk.pc = "schemas"
        /\ LogRead("schemas", schemaPath, <<"schemas", schemaPath>> \in loadedOnce)
        /\ app' = app \cup {[what |-> "schema", path |-> schemaPath, tenant |-> NoId,
                             prefix |-> NoId]}
        /\ task' = [task EXCEPT ![t] =
                        Enter([tk EXCEPT !.ctx.schemas = @ \cup {schemaPath}],
                              StageAfter(1, root), root)]
        /\ UNCHANGED <<pathCall, unitCall, pluginManager, registry, maxTenants, disk, trusted, loadedResources, nextOid, calls, ret>>

\* ResourceLoader.loadServices: this.loadedResources.has(cacheKey)
CachedServices(cache, servicesPath) == CacheKey(servicesPath) \in DOMAIN cache

\* loadResources, "Load services": ResourceLoader.loadServices to its
\* first await; a cache hit returns the cached mapping.
ServicesStep(t) ==
    LET tk == task[t]
        root == TenantPath(tk.ctx.config)
        servicesPath == SubPath(root, "services")
    IN  /\ tk.pc = "services"
        /\ task' = [task EXCEPT ![t] =
                        IF CachedServices(loadedResources, servicesPath)
                        THEN Enter([tk EXCEPT !.ctx.services =
                                        @ \cup loadedResources[CacheKey(servicesPath)]],
                                   StageAfter(2, root), root)
                        ELSE [tk EXCEPT !.pc = "svcLoad",
                                        !.late = <<"services", servicesPath>> \in loadedOnce]]
        /\ UNCHANGED <<pathCall, unitCall, pluginManager, registry, maxTenants, disk, trusted, loadedResources, app,
                       loadedOnce, loadedAgain, nextOid, calls, ret>>

\* ResourceLoader.loadServices after a cache miss: the files are imported
\* and instantiated, the mapping is cached and added to the context.
SvcLoadStep(t) ==
    LET tk == task[t]
        root == TenantPath(tk.ctx.config)
        servicesPath == SubPath(root, "services")
        services == ServicesOf(servicesPath)
    IN  /\ tk.pc = "svcLoad"
        /\ LogRead("services", servicesPath, tk.late)
        /\ loadedResources' =
               [k \in (DOMAIN loadedResources) \cup {CacheKey(servicesPath)} |->
                   IF k = CacheKey(servicesPath) THEN services ELSE loadedResources[k]]
        /\ task' = [task EXCEPT ![t] =
                        Enter([tk EXCEPT !.ctx.services = @ \cup services, !.late = FALSE],
                              StageAfter(2, root), root)]
        /\ UNCHANGED <<pathCall, unitCall, pluginManager, registry, maxTenants, disk, trusted, app, nextOid, calls, ret>>

\* ResourceLoader.loadPlugin(app, pluginPath, options): TRUE when the
\* entry unit was registered, FALSE when index.mjs is absent, when its
\* export is not a function and when app.register threw.
LoadPlugin(pluginPath) ==
    PluginIndex(pluginPath) = "function" /\ ~RegisterThrows(pluginPath)

\* loadResources that gives up the plugins and the routes at the first
\* plugin whose loadPlugin returns false.
PluginStep_AbortOnFailure(t) ==
    LET tk == task[t]
        root == TenantPath(tk.ctx.config)
        pluginName == Head(tk.todo)
        pluginPath == SubPath(SubPath(root, "plugins"), pluginName)
        rest == Tail(tk.todo)
        success == LoadPlugin(pluginPath)
        c == IF success THEN [tk.ctx EXCEPT !.plugins = @ \cup {pluginName}] ELSE tk.ctx
    IN  /\ tk.pc = "plugins"
        /\ IF PluginIndex(pluginPath) = "absent"
           THEN UNCHANGED <<loadedOnce, loadedAgain>>
           ELSE LogRead("plugin", pluginPath, <<"plugin", pluginPath>> \in loadedOnce)
        /\ app' = IF success
                  THEN app \cup {[what |-> "plugin", path |-> pluginPath, tenant |-> tk.ctx.id,
                                   prefix |-> NoId]}
                  ELSE app
        /\ task' = [task EXCEPT ![t] =
                        IF ~success THEN [tk EXCEPT !.pc = "register", !.todo = << >>]
                        ELSE IF rest = << >>
                        THEN Enter([tk EXCEPT !.ctx = c], StageAfter(3, root), root)
                        ELSE [tk EXCEPT !.ctx = c, !.todo = rest]]
        /\ UNCHANGED <<pathCall, unitCall, pluginManager, registry, maxTenants, disk, trusted, loadedResources, nextOid, calls, ret>>

\* loadResources, "Load plugins": ResourceLoader.loadPlugin for the next
\* directory of the listing.
PluginStep(t) ==
    LET tk == task[t]
        root == TenantPath(tk.ctx.config)
        pluginName == Head(tk.todo)
        pluginPath == SubPath(SubPath(root, "plugins"), pluginName)
        rest == Tail(tk.todo)
        success == LoadPlugin(pluginPath)
        c == IF success THEN [tk.ctx EXCEPT !.plugins = @ \cup {pluginName}] ELSE tk.ctx
    IN  /\ tk.pc = "plugins"
        /\ IF PluginIndex(pluginPath) = "absent"
           THEN UNCHANGED <<loadedOnce, loadedAgain>>
           ELSE LogRead("plugin", pluginPath, <<"plugin", pluginPath>> \in loadedOnce)
        /\ app' = IF success
                  THEN app \cup {[what |-> "plugin", path |-> pluginPath, tenant |-> tk.ctx.id,
                                   prefix |-> NoId]}
                  ELSE app
        /\ task' = [task EXCEPT ![t] =
                        IF rest = << >>
                        THEN Enter([tk EXCEPT !.ctx = c], StageAfter(3, root), root)
                        ELSE [tk EXCEPT !.ctx = c, !.todo = rest]]
        /\ UNCHANGED <<pathCall, unitCall, pluginManager, registry, maxTenants, disk, trusted, loadedResources, nextOid, calls, ret>>

\* loadResources, "Load routes": ResourceLoader.loadPlugin(routesPath)
\* with the prefix "/" + tenant id.
RoutesStep(t) ==
    LET tk == task[t]
        root == TenantPath(tk.ctx.config)
        routesPath == SubPath(root, "routes")
        success == LoadPlugin(routesPath)
    IN  /\ tk.pc = "routes"
        /\ IF PluginIndex(routesPath) = "absent"
           THEN UNCHANGED <<loadedOnce, loadedAgain>>
           ELSE LogRead("plugin", routesPath, <<"plugin", routesPath>> \in loadedOnce)
        /\ app' = IF success
                  THEN app \cup {[what |-> "routes", path |-> routesPath, tenant |-> tk.ctx.id,
                                   prefix |-> <<"/">> \o tk.ctx.id]}
                  ELSE app
        /\ task' = [task EXCEPT ![t] =
                        [tk EXCEPT !.pc = "register",
                                   !.ctx.routes = IF success THEN @ \cup {routesPath} ELSE @]]
        /\ UNCHANGED <<pathCall, unitCall, pluginManager, registry, maxTenants, disk, trusted, loadedResources, nextOid, calls, ret>>

\* loadTenant that takes the routes, plugins and schemas of a rejected
\* tenant back out of the host application.
RegisterStep_Rollback(t) ==
    LET tk == task[t]
        r == Register(registry, maxTenants, tk.ctx)
    IN  /\ tk.pc = "register"
        /\ registry' = r.tenants
        /\ IF r.threw THEN Finish(t, "null", "CapacityExceeded") ELSE Finish(t, "ctx", "")
        /\ app' = IF r.threw
                  THEN {e \in app : /\ e.tenant # tk.ctx.id
                                    /\ e.path \notin tk.ctx.schemas}
                  ELSE app
        /\ UNCHANGED <<pathCall, unitCall, pluginManager, maxTenants, disk, trusted, loadedResources,
                       loadedOnce, loadedAgain, nextOid, calls>>

\* TenantManager.loadTenant after createTenant returned a context:
\* this.tenantRegistry.register(tenant), whose throw loadTenant catches.
RegisterStep(t) ==
    LET tk == task[t]
        r == Register(registry, maxTenants, tk.ctx)
    IN  /\ tk.pc = "register"
        /\ registry' = r.tenants
        /\ IF r.threw THEN Finish(t, "null", "CapacityExceeded") ELSE Finish(t, "ctx", "")
        /\ UNCHANGED <<pathCall, unitCall, pluginManager, maxTenants, disk, trusted, loadedResources, app,
                       loadedOnce, loadedAgain, nextOid, calls>>

\* The ids callers pass to the manager.
CallIds == {IdA, IdB, IdC, IdBad}

Next ==
    \/ \E t \in Tasks, s \in Sources, c \in {NoId, IdBad} : LoadTenant(t, s, c)
    \/ \E t \in Tasks, i \in CallIds : ReloadTenant(t, i)
    \/ \E t \in Tasks, i \in CallIds : UnloadTenant(t, i)
    \/ \E t \in Tasks, p \in BOOLEAN : LoadAllTenants(t, p)
    \/ \E t \in Tasks : AllNpmPhase(t)
    \/ \E t \in Tasks : AllLocalPhase(t)
    \/ \E t \in Tasks : ProbeLocal(t)
    \/ \E t \in Tasks : ProbeNpm(t)
    \/ \E t \in Tasks, f \in CfgVariants : ConfigStep(t, f)
    \/ \E t \in Tasks : MainStep(t)
    \/ \E t \in Tasks : SchemasStep(t)
    \/ \E t \in Tasks : ServicesStep(t)
    \/ \E t \in Tasks : SvcLoadStep(t)
    \/ \E t \in Tasks : PluginStep(t)
    \/ \E t \in Tasks : RoutesStep(t)
    \/ \E t \in Tasks : RegisterStep(t)

Spec == Init /\ [][Next]_vars

\* ------------------------------------------------------- server start-up
\* A freshly constructed server whose start calls loadAllTenants once.
InitBoot ==
    /\ registry = [i \in {} |-> NoCtx]
    /\ maxTenants \in 1..MaxTenants
    /\ disk \in BootDisks
    /\ trusted = {}
    /\ loadedResources = [k \in {} |-> {}]
    /\ app = {}
    /\ loadedOnce = {}
    /\ loadedAgain = {}
    /\ nextOid = 1
    /\ calls = 0
    /\ task = [t \in Tasks |-> IdleTask]
    /\ ret = NoRet
    /\ pluginManager = NoPluginManager
    /\ pathCall = NoPathCall
    /\ unitCall = NoUnitCall

NextBoot ==
    \/ \E p \in BOOLEAN : calls = 0 /\ LoadAllTenants("t1", p)
    \/ AllNpmPhase("t1")
    \/ AllLocalPhase("t1")
    \/ ProbeLocal("t1")
    \/ ProbeNpm("t1")
    \/ \E f \in CfgVariants : ConfigStep("t1", f)
    \/ MainStep("t1")
    \/ SchemasStep("t1")
    \/ ServicesStep("t1")
    \/ SvcLoadStep("t1")
    \/ PluginStep("t1")
    \/ RoutesStep("t1")
    \/ RegisterStep("t1")

SpecBoot == InitBoot /\ [][NextBoot]_vars

\* ------------------------------------------------------ the path resolver
\* A resolver with no trusted root and one call of resolvePath to make.
InitPath ==
    /\ registry = [i \in {} |-> NoCtx]
    /\ maxTenants = MaxTenants
    /\ disk = Disk
    /\ trusted = {}
    /\ loadedResources = [k \in {} |-> {}]
    /\ app = {}
    /\ loadedOnce = {}
    /\ loadedAgain = {}
    /\ nextOid = 1
    /\ calls = 0
    /\ task = [t \in Tasks |-> IdleTask]
    /\ ret = NoRet
    /\ pluginManager = NoPluginManager
    /\ \E p \in PathsUpTo(MaxPathLen), a \in BOOLEAN :
          pathCall = [relativePath |-> p, allowTrusted |-> a, result |-> NoResult]
    /\ unitCall = NoUnitCall

\* PathResolver.addTrustedPath(packagePath)
AddTrustedPath(packagePath) ==
    /\ trusted' = trusted \cup {PathResolve(BaseDir, packagePath)}
    /\ UNCHANGED <<registry, maxTenants, disk, loadedResources, app, loadedOnce,
                   loadedAgain, nextOid, calls, task, ret, pathCall, unitCall,
                   pluginManager>>

\* The call of resolvePath returns or throws.
ResolvePathCall ==
    /\ ~pathCall.result.done
    /\ pathCall' = [pathCall EXCEPT !.result =
                        ResolvePath(trusted, pathCall.relativePath, pathCall.allowTrusted)]
    /\ UNCHANGED <<registry, maxTenants, disk, trusted, loadedResources, app,
                   loadedOnce, loadedAgain, nextOid, calls, task, ret, unitCall,
                   pluginManager>>

NextPath ==
    \/ \E p \in TrustedRoots : AddTrustedPath(p)
    \/ ResolvePathCall

SpecPath == InitPath /\ [][NextPath]_vars

\* ------------------------------------------------------------------ claims
\* Task t is between two suspension points of an operation.
Busy(t) == task[t].pc # "idle"

\* Task t takes a step.
Steps(t) == task'[t] # task[t]

\* C1: in every reachable state, under every interleaving of loadTenant,
\* loadAllTenants, reloadTenant and unloadTenant, the registry holds at
\* most maxTenants entries.
C1_RegistryBounded == Cardinality(DOMAIN registry) <= maxTenants

\* The registry is full and a register was rejected for it.
C1_Witness ==
    /\ Cardinality(DOMAIN registry) = maxTenants
    /\ ret.why = "CapacityExceeded"

\* C2: a register called when size >= maxTenants throws CapacityExceeded
\* and leaves the registry map unchanged, whatever the id of the context,
\* an id that is already present included.
C2_RegisterAtCapacity ==
    [][\A t \in Tasks :
          (task[t].pc = "register" /\ Steps(t)
             /\ Cardinality(DOMAIN registry) >= maxTenants)
          => /\ registry' = registry
             /\ ret'.result = "null"
             /\ ret'.why = "CapacityExceeded"]_vars

\* A register of a context whose id is present was rejected by a full
\* registry.
C2_Witness ==
    /\ ret.why = "CapacityExceeded"
    /\ ret.ctx # NoCtx
    /\ ret.ctx.id \in DOMAIN registry
    /\ Cardinality(DOMAIN registry) >= maxTenants

\* C3: for every id with a character outside [A-Za-z0-9_-] validation
\* fails, and a manager operation given that id (loadTenant with it as
\* explicit id, reloadTenant, unloadTenant) adds, replaces or removes no
\* registry entry.
C3_InvalidIdNoMutation ==
    [][/\ \A i \in CallIds : (Sanitize(i) # i) => ~ValidTenantId(i)
       /\ \A t \in Tasks :
            (task[t].op = "load" /\ Sanitize(task[t].cid) # task[t].cid /\ Steps(t))
            => registry' = registry
       /\ (ret' # ret /\ ret'.op \in {"reload", "unload"} /\ Sanitize(ret'.id) # ret'.id)
            => registry' = registry]_vars

\* Every context, under construction or registered, has an active config.
AllActive ==
    /\ \A t \in Tasks : task[t].ctx # NoCtx => task[t].ctx.config.active = TRUE
    /\ \A i \in DOMAIN registry : registry[i].config.active = TRUE

\* C5: when the merged config has active: false, loadTenant returns null,
\* no entry is added to the registry and nothing is registered with the
\* host: the build stops before any resource is loaded.
C5_InactiveSkipped ==
    /\ []AllActive
    /\ [][\A t \in Tasks :
            (task[t].pc = "loadConfig" /\ Steps(t) /\ ret' # ret /\ ret'.why = "inactive")
            => /\ ret'.result = "null"
               /\ ret'.ctx = NoCtx
               /\ registry' = registry
               /\ app' = app]_vars
    /\ [][app' # app
            => \E t \in Tasks : Steps(t) /\ task[t].ctx # NoCtx
                                /\ task[t].ctx.config.active = TRUE]_vars

\* A loadTenant of a tenant whose config.json says active: false returned
\* null.
C5_Witness ==
    /\ ret.op = "load"
    /\ ret.why = "inactive"
    /\ ret.result = "null"

\* C7: a reloadTenant that builds returns a context registered under the
\* same id, and the context is a newly built object that replaces the old
\* one.
C7_ReloadSameId ==
    [][\A t \in Tasks :
          (task[t].op = "reload" /\ task[t].pc = "register" /\ Steps(t)
             /\ ret'.result = "ctx")
          => /\ ret'.ctx.id = task[t].id
             /\ GetTenant(registry', task[t].id) = ret'.ctx
             /\ ret'.ctx.oid # task[t].old]_vars

\* C8: each of the four ResourceLoader operations is cached per (kind,
\* absolute path): a call made after a load of the same pair has finished
\* does not read the source again.
C8_LoadedOncePerPath == loadedAgain = {}

\* C9: reloadTenant of an id that is not in the registry throws
\* TenantNotFound and leaves the registry, the caches and the host
\* unchanged.
C9_ReloadAbsent ==
    [][\A t \in Tasks, i \in CallIds :
          (ReloadTenant(t, i) /\ GetTenant(registry, i) = NoCtx)
          => /\ ret'.op = "reload" /\ ret'.id = i
             /\ ret'.result = "threw" /\ ret'.why = "TenantNotFound"
             /\ UNCHANGED <<registry, loadedResources, trusted, app,
                            loadedOnce, loadedAgain, task>>]_vars

\* A reloadTenant found no tenant under a valid id while another tenant
\* was registered.
C9_Witness ==
    /\ ret.op = "reload"
    /\ ret.why = "TenantNotFound"
    /\ ValidTenantId(ret.id)
    /\ registry # << >>

\* Task t is in the rebuild of a reloadTenant: the old context has been
\* unregistered and the new one is not registered yet.
InGap(t) == task[t].op = "reload" /\ Busy(t)

\* C10 as stated: at every suspension point of the rebuild of
\* reloadTenant(id), a lookup of id returns null.
C10_GapLookupNull ==
    \A t \in Tasks : InGap(t) => GetTenant(registry, task[t].id) = NoCtx

\* C10, amended: the rebuild starts with id unregistered, the rebuilding
\* operation registers nothing before its final register, and a lookup
\* of id in between never returns the old context: it returns null
\* unless an overlapping operation has registered a context under id.
C10_GapNeverOld ==
    /\ [](\A t \in Tasks : InGap(t) => GetTenant(registry, task[t].id).oid # task[t].old)
    /\ [][\A t \in Tasks :
            (~InGap(t) /\ InGap(t)') => GetTenant(registry', task'[t].id) = NoCtx]_vars
    /\ [][\A t \in Tasks :
            (InGap(t) /\ InGap(t)' /\ Steps(t)) => registry' = registry]_vars

\* A rebuild is past its configuration read and a lookup of its id finds
\* nothing.
C10_Witness ==
    \E t \in Tasks :
        /\ InGap(t)
        /\ task[t].ctx # NoCtx
        /\ GetTenant(registry, task[t].id) = NoCtx

\* A resolved path lies inside a root: it is the root or a path below it.
Inside(p, root) ==
    \/ p = root
    \/ StartsWith(p, IF root = <<"/">> THEN root ELSE root \o <<"/">>)

\* A resolved path lies inside the base root or inside a trusted root.
Contained(p) == Inside(p, BaseDir) \/ \E r \in trusted : Inside(p, r)

\* C4: resolvePath of a relative path throws whenever the joined result
\* lies outside the base root and outside every trusted root, and the
\* path it returns lies inside the base root or inside a trusted root.
C4_TraversalRejected ==
    (pathCall.result.done /\ ~IsAbsolute(pathCall.relativePath))
    => /\ ~Contained(PathResolve(BaseDir, pathCall.relativePath)) => pathCall.result.threw
       /\ ~pathCall.result.threw => Contained(pathCall.result.path)

\* loadAllTenants has returned.
BootDone == ret.op = "loadAll" /\ ret.all \in {"true", "false"}

\* The disk holds one package source and one local source, and the
\* configuration of both has been loaded: the package was discovered and
\* resolved, the directory was found.
OnePackageOneLocal ==
    /\ Len(disk.deps) = 1
    /\ Len(disk.dirs) = 1
    /\ <<"config", ConfigPath("npm", Head(disk.deps))>> \in loadedOnce
    /\ <<"config", TenantDirPath(Head(disk.dirs))>> \in loadedOnce

\* C6 as stated: given one local source and one package source, both
\* resolvable and active, after loadAllTenants both tenants are in the
\* registry and getStats().total is 2 (here even with room for two in
\* the registry).
C6_BothRegistered ==
    (BootDone /\ OnePackageOneLocal /\ ret.why # "inactive" /\ maxTenants >= 2)
    => StatsTotal(registry) = 2

\* C6, amended: if moreover the two contexts get different ids and the
\* registry, empty when loadAllTenants starts, has room for two, both
\* ids are in the registry and getStats().total is 2.
C6_BothRegisteredDistinct ==
    (BootDone /\ OnePackageOneLocal /\ ret.why # "inactive"
       /\ maxTenants >= 2
       /\ ret.ctx # NoCtx /\ ret.ctx.id # StripPrefix(Head(disk.deps)))
    => /\ DOMAIN registry = {StripPrefix(Head(disk.deps)), ret.ctx.id}
       /\ registry[ret.ctx.id] = ret.ctx
       /\ StatsTotal(registry) = 2

\* loadAllTenants returned with the package tenant and the local tenant
\* registered under two ids.
C6_Witness ==
    /\ BootDone
    /\ OnePackageOneLocal
    /\ ret.tally = [local |-> 1, npm |-> 1, failed |-> 0]
    /\ StatsTotal(registry) = 2

\* ------------------------------------------------- the services loader
\* A loader about to load one services directory.
InitServices ==
    /\ registry = [i \in {} |-> NoCtx]
    /\ maxTenants = MaxTenants
    /\ disk = Disk
    /\ trusted = {}
    /\ loadedResources = [k \in {} |-> {}]
    /\ app = {}
    /\ loadedOnce = {}
    /\ loadedAgain = {}
    /\ nextOid = 1
    /\ calls = 0
    /\ task = [t \in Tasks |-> IdleTask]
    /\ ret = NoRet
    /\ pluginManager = NoPluginManager
    /\ pathCall = NoPathCall
    /\ \E d \in {"ok", "missing", "traversal"}, s \in Listings(MaxFiles),
          b \in SUBSET ServiceFilePool :
          unitCall = [op |-> "loadServices", dir |-> d, serviceFiles |-> s,
                      broken |-> b, done |-> FALSE]

\* ResourceLoader.loadServices(servicesPath) returns.
LoadServicesCall ==
    /\ unitCall.op = "loadServices"
    /\ ~unitCall.done
    /\ unitCall' = [op |-> "loadServices", dir |-> unitCall.dir,
                    serviceFiles |-> unitCall.serviceFiles, broken |-> unitCall.broken,
                    done |-> TRUE,
                    result |-> LoadServices(unitCall.dir, unitCall.serviceFiles,
                                            unitCall.broken)]
    /\ UNCHANGED <<registry, maxTenants, disk, trusted, loadedResources, app,
                   loadedOnce, loadedAgain, nextOid, calls, task, ret, pathCall,
                   pluginManager>>

NextServices == LoadServicesCall

SpecServices == InitServices /\ [][NextServices]_vars

\* A call of loadServices on an existing directory has returned.
ServicesLoaded == unitCall.op = "loadServices" /\ unitCall.done /\ unitCall.dir = "ok"

\* The files of the listing whose import and instantiation succeeded.
Succeeded ==
    {unitCall.serviceFiles[i] : i \in 1..Len(unitCall.serviceFiles)} \ unitCall.broken

\* C11 as stated: loadServices never throws, and the mapping it returns
\* holds exactly one entry for each file that succeeded, whatever files
\* failed beside it.
C11_OneEntryPerFile ==
    (unitCall.op = "loadServices" /\ unitCall.done)
    => /\ ~unitCall.result.threw
       /\ unitCall.dir = "ok"
          => /\ Cardinality(DOMAIN unitCall.result.services) = Cardinality(Succeeded)
             /\ \A f \in Succeeded : unitCall.result.services[ServiceName(f)] = f

\* C11, amended: loadServices never throws, and the mapping holds one
\* entry per service name among the files that succeeded, made from the
\* file of that name listed last; a file that failed makes no entry and
\* takes none away, so with pairwise different names there is exactly one
\* entry for each file that succeeded.
C11_OneEntryPerName ==
    (unitCall.op = "loadServices" /\ unitCall.done)
    => /\ ~unitCall.result.threw
       /\ unitCall.dir = "ok"
          => LET services == unitCall.result.services
                 files == unitCall.serviceFiles
             IN  /\ DOMAIN services = {ServiceName(f) : f \in Succeeded}
                 /\ \A k \in DOMAIN services :
                       /\ services[k] \in Succeeded
                       /\ ServiceName(services[k]) = k
                       /\ \A i, j \in 1..Len(files) :
                             (files[i] = services[k] /\ i < j /\ files[j] \in Succeeded)
                             => ServiceName(files[j]) # k
                 /\ (\A f, g \in Succeeded : f # g => ServiceName(f) # ServiceName(g))
                    => Cardinality(DOMAIN services) = Cardinality(Succeeded)

\* A listing whose first file failed and whose later file was loaded.
C11_Witness ==
    /\ ServicesLoaded
    /\ Len(unitCall.serviceFiles) >= 2
    /\ unitCall.serviceFiles[1] \in unitCall.broken
    /\ unitCall.serviceFiles[2] \in Succeeded
    /\ ServiceName(unitCall.serviceFiles[2]) \in DOMAIN unitCall.result.services

\* ----------------------------------------------- tenant identification
\* The registries a request can meet: empty, or holding tenant a.
RequestRegistries ==
    {[i \in {} |-> NoCtx],
     [i \in {IdA} |-> NewContext(1, IdA, Defaults(IdA, DirA), "local")]}

\* A registry with a strategy installed and one request to identify.
InitRequest ==
    /\ registry \in RequestRegistries
    /\ maxTenants = MaxTenants
    /\ disk = Disk
    /\ trusted = {}
    /\ loadedResources = [k \in {} |-> {}]
    /\ app = {}
    /\ loadedOnce = {}
    /\ loadedAgain = {}
    /\ nextOid = 1
    /\ calls = 0
    /\ task = [t \in Tasks |-> IdleTask]
    /\ ret = NoRet
    /\ pluginManager = NoPluginManager
    /\ pathCall = NoPathCall
    /\ \E o \in {"extractTenantId", "getTenantIdFromRequest"}, s \in Strategies,
          r \in Requests :
          unitCall = [op |-> o, strategy |-> s, request |-> r, done |-> FALSE]

\* identificationStrategy.extractTenantId(request), called directly
ExtractCall ==
    /\ unitCall.op = "extractTenantId"
    /\ ~unitCall.done
    /\ unitCall' = [op |-> unitCall.op, strategy |-> unitCall.strategy,
                    request |-> unitCall.request, done |-> TRUE,
                    result |-> StrategyExtract(unitCall.strategy, unitCall.request)]
    /\ UNCHANGED <<registry, maxTenants, disk, trusted, loadedResources, app,
                   loadedOnce, loadedAgain, nextOid, calls, task, ret, pathCall,
                   pluginManager>>

\* TenantRegistry.getTenantIdFromRequest(request)
GetTenantIdCall ==
    /\ unitCall.op = "getTenantIdFromRequest"
    /\ ~unitCall.done
    /\ unitCall' = [op |-> unitCall.op, strategy |-> unitCall.strategy,
                    request |-> unitCall.request, done |-> TRUE,
                    result |-> GetTenantIdFromRequest(unitCall.strategy, unitCall.request)]
    /\ UNCHANGED <<registry, maxTenants, disk, trusted, loadedResources, app,
                   loadedOnce, loadedAgain, nextOid, calls, task, ret, pathCall,
                   pluginManager>>

NextRequest ==
    \/ ExtractCall
    \/ GetTenantIdCall

SpecRequest == InitRequest /\ [][NextRequest]_vars

\* The composite strategy has identified the request.
Extracted ==
    /\ unitCall.op = "extractTenantId"
    /\ unitCall.done
    /\ unitCall.strategy = "MultiSource"

\* The candidates of a request: the hostname's first label, the first
\* url segment unless it is reserved, the x-tenant-id header.
HostCandidate == HostnameMatch(unitCall.request.hostname)
PathCandidate ==
    LET seg == PathMatch(unitCall.request.url)
    IN  IF seg \in {<<"api">>, <<"health">>} THEN NoId ELSE seg
HeaderCandidate ==
    IF unitCall.request.hasHeaders THEN unitCall.request.xTenantId ELSE NoId

\* The first candidate in the order hostname, url, header; NoId when the
\* request has none.
FirstCandidate ==
    IF HostCandidate # NoId THEN HostCandidate
    ELSE IF PathCandidate # NoId THEN PathCandidate
    ELSE HeaderCandidate

\* C12 as stated: the composite strategy returns the first non-null
\* candidate in the order hostname, url segment, header, and the default
\* id when there is none.
C12_FirstCandidate ==
    Extracted
    => /\ ~unitCall.result.threw
       /\ unitCall.result.id =
             IF FirstCandidate # NoId THEN FirstCandidate ELSE DefaultTenantId

\* C12, amended: the composite strategy returns the first non-null
\* candidate when that candidate is a valid identifier, and the default
\* id when it is not (no later candidate is tried) or when there is no
\* candidate; /health with no subdomain and no header gives the default.
C12_FirstCandidateIfValid ==
    Extracted
    => /\ ~unitCall.result.threw
       /\ unitCall.result.id =
             IF FirstCandidate # NoId /\ Sanitize(FirstCandidate) = FirstCandidate
             THEN FirstCandidate ELSE DefaultTenantId
       /\ (unitCall.request.url = <<"/", "health">> /\ HostCandidate = NoId
             /\ HeaderCandidate = NoId)
          => unitCall.result.id = DefaultTenantId

\* A request with a subdomain and a tenant header was identified by its
\* subdomain.
C12_Witness ==
    /\ Extracted
    /\ HostCandidate = IdA
    /\ HeaderCandidate = IdC
    /\ unitCall.result.id = IdA

\* C13: getTenantIdFromRequest never propagates an error: whatever the
\* request and the installed strategy, when the strategy throws the
\* result is the default id, and the registry is not modified.
C13_NeverPropagates ==
    /\ []((unitCall.op = "getTenantIdFromRequest" /\ unitCall.done)
            => /\ ~unitCall.result.threw
               /\ StrategyExtract(unitCall.strategy, unitCall.request).threw
                  => unitCall.result.id = DefaultTenantId)
    /\ [][(unitCall.op = "getTenantIdFromRequest" /\ unitCall' # unitCall)
            => registry' = registry]_vars

\* The base strategy threw for a request to a registry that holds a
\* tenant, and the default id came back.
C13_Witness ==
    /\ unitCall.op = "getTenantIdFromRequest"
    /\ unitCall.done
    /\ unitCall.strategy = "Base"
    /\ unitCall.result = [threw |-> FALSE, id |-> DefaultTenantId]
    /\ registry # << >>

\* ------------------------------------------------------ the tenant factory
\* One caller that loads tenants one after the other, from every kind of
\* source.
NextFactory ==
    \/ \E s \in Sources \cup {PkgB, PkgC, PkgD}, c \in {NoId, IdBad} : LoadTenant("t1", s, c)
    \/ ProbeLocal("t1")
    \/ ProbeNpm("t1")
    \/ \E f \in CfgVariants \cup PkgCfgVariants : ConfigStep("t1", f)
    \/ MainStep("t1")
    \/ SchemasStep("t1")
    \/ ServicesStep("t1")
    \/ SvcLoadStep("t1")
    \/ PluginStep("t1")
    \/ RoutesStep("t1")
    \/ RegisterStep("t1")

SpecFactory == Init /\ [][NextFactory]_vars

\* The adapter the ordered list [local, package] gives a source: the
\* first whose probe succeeds.
FirstAdapter(source) ==
    IF LocalExists(source) THEN "local"
    ELSE IF PkgResolves(source) THEN "npm"
    ELSE "none"

\* C14: createTenant builds with the first adapter of the list (local,
\* then package) whose probe of the source succeeds, never with a later
\* one, and with no such adapter it fails with NoAdapterFound: nothing is
\* built and nothing is registered.
C14_FirstAdapter ==
    /\ [](\A t \in Tasks :
            /\ task[t].adapter # "none" => task[t].adapter = FirstAdapter(task[t].src)
            /\ task[t].ctx # NoCtx => task[t].ctx.type = FirstAdapter(task[t].src)
            /\ (Busy(t) /\ task[t].pc \notin {"probeLocal", "probeNpm", "allNpm", "allLocal"})
               => task[t].adapter # "none")
    /\ [][\A t \in Tasks :
            (task[t].pc \in {"probeLocal", "probeNpm"} /\ Steps(t)
               /\ FirstAdapter(task[t].src) = "none" /\ task'[t].pc # "probeNpm")
            => /\ ret'.result = "null"
               /\ ret'.why = "NoAdapterFound"
               /\ ret'.ctx = NoCtx
               /\ UNCHANGED <<registry, app, nextOid, loadedOnce>>]_vars

\* A source that both adapters can handle was built by the local adapter.
C14_Witness ==
    /\ ret.result = "ctx"
    /\ ret.ctx.type = "local"
    /\ ret.ctx.config.source = PkgB
    /\ PkgResolves(PkgB)

\* C15: the id of the context built by createTenant(app, source,
\* explicitId) is the explicit id when one is given, otherwise the package
\* name without its prefix for a package source, otherwise the basename of
\* the source path, whatever the loaded configuration holds (here for
\* explicit ids that are valid identifiers).
C15_IdFromSource ==
    \A t \in Tasks :
        (task[t].ctx # NoCtx /\ Sanitize(task[t].cid) = task[t].cid)
        => task[t].ctx.id =
              IF task[t].cid # NoId THEN task[t].cid
              ELSE IF task[t].adapter = "npm" THEN StripPrefix(task[t].src)
              ELSE Basename(task[t].src)

\* The loadTenant that task t runs returns in this step.
LoadReturns(t) ==
    /\ Busy(t)
    /\ task[t].pc \notin {"allNpm", "allLocal"}
    /\ \/ task'[t] = Returned(task[t], TRUE)
       \/ task'[t] = Returned(task[t], FALSE)

\* C16: loadTenant never throws: it returns a context that is at that
\* moment stored in the registry under its id, or it returns null and
\* leaves the registry unchanged (no adapter, inactive tenant, build
\* error, capacity exceeded).
C16_ContextOrNull ==
    /\ [](ret.result = "threw" => (ret.op = "reload" /\ ret.why = "TenantNotFound"))
    /\ [][\A t \in Tasks :
            LoadReturns(t)
            => \/ /\ ret'.result = "ctx"
                  /\ ret'.ctx # NoCtx
                  /\ ret'.ctx = task[t].ctx
                  /\ GetTenant(registry', ret'.ctx.id) = ret'.ctx
               \/ /\ ret'.result = "null"
                  /\ ret'.why \in {"NoAdapterFound", "inactive", "InvalidIdentifier",
                                   "TenantBuildFailure", "CapacityExceeded"}
                  /\ registry' = registry]_vars

\* A loadTenant returned a context and the registry holds it under its id.
C16_Witness ==
    /\ ret.op = "load"
    /\ ret.result = "ctx"
    /\ ret.ctx.id \in DOMAIN registry
    /\ registry[ret.ctx.id] = ret.ctx

\* Task t runs a loadAllTenants.
InAll(t) == task[t].op = "loadAll"

\* The loadAllTenants of task t is inside the loadTenant of a source.
InBuild(t) == InAll(t) /\ task[t].pc \notin {"idle", "allNpm", "allLocal"}

\* The sum of the tallies: the sources a loadAllTenants has finished.
Finished(tally) == tally.local + tally.npm + tally.failed

\* C17: loadAllTenants processes its sources one at a time, all package
\* sources before any local directory: the build of a source starts at
\* the beginning of a phase or in the step in which the loadTenant of the
\* previous source of the queue returns (context registered, or null),
\* the registry changes only in the step that ends a build, and the local
\* phase is never followed by a package build.
C17_Sequential ==
    /\ [][\A t \in Tasks :
            (InAll(t) /\ Steps(t))
            => /\ task[t].pc = "allNpm"
                  => IF disk.deps = << >>
                     THEN task'[t].pc = "allLocal"
                     ELSE /\ task'[t].phase = "npm"
                          /\ task'[t].queue = disk.deps
                          /\ task'[t].pc = "probeLocal"
                          /\ task'[t].src = Head(disk.deps)
               /\ (task[t].pc = "allLocal" /\ task'[t].pc # "idle")
                  => /\ task'[t].phase = "local"
                     /\ task'[t].queue = disk.dirs
                     /\ task'[t].pc = "probeLocal"
                     /\ task'[t].src = TenantDirPath(Head(disk.dirs))
               /\ task[t].phase = "local" => task'[t].phase \in {"local", "none"}
               /\ (InBuild(t) /\ task[t].phase = "npm" /\ task'[t].pc = "allLocal")
                  => (Len(task[t].queue) = 1 /\ LoadReturns(t))
               /\ (InBuild(t) /\ task'[t].queue # task[t].queue)
                  => /\ LoadReturns(t)
                     /\ ret'.op = "loadAll"
                     /\ ret'.result \in {"ctx", "null"}
                     /\ ret'.result = "ctx" => GetTenant(registry', ret'.ctx.id) = ret'.ctx
                     /\ Finished(ret'.tally) = Finished(task[t].tally) + 1
                     /\ task'[t].pc # "idle" => task'[t].queue = Tail(task[t].queue)
               /\ (InBuild(t) /\ task'[t].pc = "probeLocal")
                  => /\ LoadReturns(t)
                     /\ task'[t].phase = task[t].phase
                     /\ task'[t].src = AllSource(task'[t])
               /\ registry' # registry => (task[t].pc = "register" /\ LoadReturns(t))]_vars
    /\ [](\A t \in Tasks :
            InBuild(t)
            => /\ task[t].phase \in {"npm", "local"}
               /\ task[t].queue # << >>
               /\ task[t].src = AllSource(task[t])
               /\ task[t].phase = "npm"
                  => Finished(task[t].tally) + Len(task[t].queue) = Len(disk.deps))

\* A loadAllTenants builds a local directory after the package of its
\* package phase has been built and registered.
C17_Witness ==
    \E t \in Tasks :
        /\ InAll(t)
        /\ task[t].phase = "local"
        /\ task[t].pc = "register"
        /\ task[t].tally.npm = 1
        /\ StripPrefix(PkgA) \in DOMAIN registry

\* C18: loadAllTenants never aborts on a failing source: it returns only
\* after the last local directory.  Every source whose loadTenant
\* returns increments exactly one tally by one: the tally of its phase
\* when a context came back, failed when null came back.  The call
\* returns true exactly when a tenant was built and registered, that is
\* when local + npm > 0.
C18_TalliesAndResult ==
    /\ [][\A t \in Tasks :
            (InBuild(t) /\ LoadReturns(t))
            => /\ ret'.tally =
                     IF ret'.result = "ctx"
                     THEN [task[t].tally EXCEPT ![task[t].phase] = @ + 1]
                     ELSE [task[t].tally EXCEPT !.failed = @ + 1]
               /\ ret'.result = "ctx" <=> registry' # registry
               /\ task'[t].pc # "idle" => task'[t].tally = ret'.tally
               /\ task'[t].pc = "allLocal"
                  => (task[t].phase = "npm" /\ Len(task[t].queue) = 1)
               /\ task'[t].pc = "idle"
                  => /\ task[t].phase = "local"
                     /\ Len(task[t].queue) = 1
                     /\ ret'.all = AllResult(ret'.tally)
               /\ task'[t].pc # "idle" => ret'.all = "running"]_vars
    /\ [](BootDone
          => /\ ret.all = "true" <=> ret.tally.local + ret.tally.npm > 0
             /\ ret.all = "true" <=> DOMAIN registry # {}
             /\ Finished(ret.tally) \in {Len(disk.dirs), Len(disk.deps) + Len(disk.dirs)})

\* A loadAllTenants went on after a source that yielded null and returned
\* true with a tenant loaded after the failure.
C18_Witness ==
    /\ BootDone
    /\ ret.all = "true"
    /\ ret.tally.failed = 1
    /\ ret.tally.local = 1
    /\ ret.result = "ctx"
    /\ Len(disk.dirs) = 2

\* unloadTenant(tenantId) is called in this step.
Unloads(tenantId) ==
    /\ calls' = calls + 1
    /\ task' = task
    /\ ret'.op = "unload"
    /\ ret'.id = tenantId

\* C19: unregister(id) returns true and removes the entry when id is
\* present, returns false and changes nothing when id is absent; a second
\* unregister of the same id returns false; no other entry is affected.
\* unloadTenant(id) returns the same and leaves the same registry.
C19_UnregisterIdempotent ==
    /\ [](\A i \in CallIds :
            LET once == Unregister(registry, i)
                twice == Unregister(once.tenants, i)
            IN  /\ once.success <=> i \in DOMAIN registry
                /\ DOMAIN once.tenants = (DOMAIN registry) \ {i}
                /\ \A j \in DOMAIN once.tenants : once.tenants[j] = registry[j]
                /\ i \notin DOMAIN registry => once.tenants = registry
                /\ ~twice.success
                /\ twice.tenants = once.tenants)
    /\ [][\A i \in CallIds :
            Unloads(i)
            => /\ ret'.result = (IF i \in DOMAIN registry THEN "true" ELSE "false")
               /\ registry' = Unregister(registry, i).tenants
               /\ DOMAIN registry' = (DOMAIN registry) \ {i}
               /\ \A j \in DOMAIN registry' : registry'[j] = registry[j]]_vars

\* unloadTenant removed a registered tenant and returned true.
C19_Witness ==
    /\ ret.op = "unload"
    /\ ret.result = "true"
    /\ ret.id \notin DOMAIN registry

\* Task t is about to register a context whose id the registry, not
\* full, already holds.
RegistersPresentId(t) ==
    /\ task[t].pc = "register"
    /\ task[t].ctx.id \in DOMAIN registry
    /\ Cardinality(DOMAIN registry) < maxTenants

\* C20: when size < maxTenants, register(context) with an id already
\* present replaces the stored context by the new one and leaves the size
\* and every other entry unchanged.
C20_LastRegisterWins ==
    [][\A t \in Tasks :
         (RegistersPresentId(t) /\ Steps(t))
         => /\ registry'[task[t].ctx.id] = task[t].ctx
            /\ registry'[task[t].ctx.id] # registry[task[t].ctx.id]
            /\ DOMAIN registry' = DOMAIN registry
            /\ \A j \in (DOMAIN registry) \ {task[t].ctx.id} : registry'[j] = registry[j]
            /\ ret'.result = "ctx"]_vars

\* A single loadAllTenants registered a package tenant and then a local
\* tenant of the same id: two contexts were registered, one entry is held
\* and it is the later context.
C20_Witness ==
    /\ calls = 1
    /\ ret.op = "loadAll"
    /\ ret.tally = [local |-> 1, npm |-> 1, failed |-> 0]
    /\ Cardinality(DOMAIN registry) = 1
    /\ maxTenants > 1
    /\ ret.result = "ctx"
    /\ ret.ctx.type = "local"
    /\ ret.ctx.id \in DOMAIN registry
    /\ registry[ret.ctx.id] = ret.ctx

\* ------------------------------------------------- plugin manager calls
\* A plugin manager about to be called.
InitPlugins == Init /\ disk = Disk

\* The lists of names handed to a batch loader.
BatchLists == UNION {[1..n -> PluginNames] : n \in 0..MaxBatch}

\* A caller's new PluginManager operation takes the first free task.
PluginFree(t) ==
    /\ pluginManager.task[t].pc = "idle"
    /\ pluginManager.calls < MaxUnitCalls
    /\ t = "t2" => pluginManager.task["t1"].pc # "idle"

\* The plugin manager after the synchronous start of loadLocalPlugin or
\* loadNPMPlugin called on its own.
BeginPlugin(pm, t, kind, pluginName, options) ==
    LET first == FirstAwait(pm.pluginCache, kind, pluginName)
    IN  IF first = "threw"
        THEN [pm EXCEPT !.calls = @ + 1,
                        !.ret = [NoPluginRet EXCEPT !.op = "single", !.kind = kind,
                                    !.name = pluginName, !.threw = TRUE]]
        ELSE [pm EXCEPT !.calls = @ + 1,
                        !.task[t] = [IdlePluginTask EXCEPT !.pc = first, !.kind = kind,
                                        !.name = pluginName, !.options = options]]

\* PluginManager.loadLocalPlugin(app, pluginName, options), to its first
\* await
LoadLocalPlugin(t, pluginName, options) ==
    /\ PluginFree(t)
    /\ pluginManager' = BeginPlugin(pluginManager, t, "local", pluginName, options)
    /\ UNCHANGED <<registry, maxTenants, disk, trusted, loadedResources, app,
                   loadedOnce, loadedAgain, nextOid, calls, task, ret, pathCall, unitCall>>

\* PluginManager.loadNPMPlugin(app, pluginName, options), to its first await
LoadNPMPlugin(t, pluginName, options) ==
    /\ PluginFree(t)
    /\ pluginManager' = BeginPlugin(pluginManager, t, "npm", pluginName, options)
    /\ UNCHANGED <<registry, maxTenants, disk, trusted, loadedResources, app,
                   loadedOnce, loadedAgain, nextOid, calls, task, ret, pathCall, unitCall>>

\* PluginManager.loadLocalPlugins(app, pluginNames, options), to its first
\* await; with no name that reaches an await it returns.
LoadLocalPlugins(t, pluginNames) ==
    LET nxt == BatchNext([IdlePluginTask EXCEPT !.kind = "local", !.batch = TRUE,
                             !.names = pluginNames, !.queue = pluginNames],
                         pluginManager.pluginCache)
    IN  /\ PluginFree(t)
        /\ pluginManager' =
              IF nxt.pc = "return"
              THEN [pluginManager EXCEPT !.calls = @ + 1, !.ret = BatchReturn(nxt)]
              ELSE [pluginManager EXCEPT !.calls = @ + 1, !.task[t] = nxt]
        /\ UNCHANGED <<registry, maxTenants, disk, trusted, loadedResources, app,
                   loadedOnce, loadedAgain, nextOid, calls, task, ret, pathCall, unitCall>>

\* PluginManager.loadNPMPlugins(app, pattern), to the await of
\* getNPMPluginNames; pluginNames are the dependencies the pattern matches.
LoadNPMPlugins(t, pluginNames) ==
    /\ PluginFree(t)
    /\ pluginManager' =
          [pluginManager EXCEPT !.calls = @ + 1,
              !.task[t] = [IdlePluginTask EXCEPT !.pc = "getNPMPluginNames", !.kind = "npm",
                              !.batch = TRUE, !.names = pluginNames, !.queue = pluginNames]]
    /\ UNCHANGED <<registry, maxTenants, disk, trusted, loadedResources, app,
                   loadedOnce, loadedAgain, nextOid, calls, task, ret, pathCall, unitCall>>

\* loadNPMPlugins after getNPMPluginNames: the loop begins, or, when
\* package.json could not be read, the outer catch returns the empty
\* summary.
PluginNamesStep(t, readable) ==
    LET tk == pluginManager.task[t]
        nxt == BatchNext(tk, pluginManager.pluginCache)
    IN  /\ tk.pc = "getNPMPluginNames"
        /\ pluginManager' =
              IF ~readable
              THEN [pluginManager EXCEPT !.task[t] = IdlePluginTask,
                       !.ret = BatchReturn([tk EXCEPT !.names = << >>])]
              ELSE IF nxt.pc = "return"
              THEN [pluginManager EXCEPT !.task[t] = IdlePluginTask, !.ret = BatchReturn(nxt)]
              ELSE [pluginManager EXCEPT !.task[t] = nxt]
        /\ UNCHANGED <<registry, maxTenants, disk, trusted, loadedResources, app,
                   loadedOnce, loadedAgain, nextOid, calls, task, ret, pathCall, unitCall>>

\* loadLocalPlugin after pathExists(pluginPath)
PluginPathStep(t) ==
    LET tk == pluginManager.task[t]
    IN  /\ tk.pc = "pathExists"
        /\ pluginManager' =
              IF PluginPathExists(tk.name)
              THEN [pluginManager EXCEPT !.task[t].pc = "import"]
              ELSE PluginResult(pluginManager, t, FALSE, "Plugin not found")
        /\ UNCHANGED <<registry, maxTenants, disk, trusted, loadedResources, app,
                   loadedOnce, loadedAgain, nextOid, calls, task, ret, pathCall, unitCall>>

\* loadLocalPlugin and loadNPMPlugin after the import of the module: the
\* typeof test, then the cache entry, up to the await of app.register.
PluginImportStep(t) ==
    LET tk == pluginManager.task[t]
        key == PluginCacheKey(tk.kind, tk.name)
        module == PluginModule(tk.kind, tk.name)
        pm == [pluginManager EXCEPT
                  !.imported[key] = @ + 1,
                  !.reimported = IF key \in pluginManager.pluginCache
                                 THEN @ \cup {key} ELSE @]
    IN  /\ tk.pc = "import"
        /\ pluginManager' =
              IF module = "throws" THEN PluginResult(pm, t, FALSE, "import failed")
              ELSE IF module # "function"
              THEN PluginResult(pm, t, FALSE, "Plugin is not a function")
              ELSE [pm EXCEPT !.pluginCache = @ \cup {key}, !.task[t].pc = "register"]
        /\ UNCHANGED <<registry, maxTenants, disk, trusted, loadedResources, app,
                   loadedOnce, loadedAgain, nextOid, calls, task, ret, pathCall, unitCall>>

\* loadLocalPlugin and loadNPMPlugin whose catch block takes the plugin
\* out of the cache when app.register rejects.
PluginRegisterStep_EvictOnFailure(t, resolved) ==
    LET tk == pluginManager.task[t]
        key == PluginCacheKey(tk.kind, tk.name)
        pm == [pluginManager EXCEPT
                  !.pluginCache = IF resolved THEN @ ELSE @ \ {key},
                  !.registered = @ \cup {[plugin |-> key,
                                            options |-> RegisterOptions(tk.kind, tk.options),
                                            cached |-> tk.pc = "registerCached"]}]
    IN  /\ tk.pc \in {"register", "registerCached"}
        /\ pluginManager' =
              PluginResult(pm, t, resolved, IF resolved THEN "" ELSE "register failed")
        /\ UNCHANGED <<registry, maxTenants, disk, trusted, loadedResources, app,
                   loadedOnce, loadedAgain, nextOid, calls, task, ret, pathCall, unitCall>>

\* loadLocalPlugin and loadNPMPlugin after app.register: registered tells
\* whether the registration resolved; a rejection lands in the catch block.
PluginRegisterStep(t, resolved) ==
    LET tk == pluginManager.task[t]
        key == PluginCacheKey(tk.kind, tk.name)
        pm == [pluginManager EXCEPT
                  !.registered = @ \cup {[plugin |-> key,
                                            options |-> RegisterOptions(tk.kind, tk.options),
                                            cached |-> tk.pc = "registerCached"]}]
    IN  /\ tk.pc \in {"register", "registerCached"}
        /\ pluginManager' =
              PluginResult(pm, t, resolved, IF resolved THEN "" ELSE "register failed")
        /\ UNCHANGED <<registry, maxTenants, disk, trusted, loadedResources, app,
                   loadedOnce, loadedAgain, nextOid, calls, task, ret, pathCall, unitCall>>

\* Callers load single plugins, their calls overlapping at the awaits.
NextPlugins ==
    \/ \E t \in Tasks, n \in PluginNames, o \in PluginOptions : LoadLocalPlugin(t, n, o)
    \/ \E t \in Tasks, n \in PluginNames, o \in PluginOptions : LoadNPMPlugin(t, n, o)
    \/ \E t \in Tasks : PluginPathStep(t)
    \/ \E t \in Tasks : PluginImportStep(t)
    \/ \E t \in Tasks, r \in BOOLEAN : PluginRegisterStep(t, r)

SpecPlugins == InitPlugins /\ [][NextPlugins]_vars

\* A plugin manager that earlier calls may have left the function plugin
\* cached in, about to run one batch loader.
InitBatch ==
    /\ registry = [i \in {} |-> NoCtx]
    /\ maxTenants = MaxTenants
    /\ disk = Disk
    /\ trusted = {}
    /\ loadedResources = [k \in {} |-> {}]
    /\ app = {}
    /\ loadedOnce = {}
    /\ loadedAgain = {}
    /\ nextOid = 1
    /\ calls = 0
    /\ task = [t \in Tasks |-> IdleTask]
    /\ ret = NoRet
    /\ pathCall = NoPathCall
    /\ unitCall = NoUnitCall
    /\ \E c \in SUBSET {PluginCacheKey("local", IdA), PluginCacheKey("npm", IdA)} :
          pluginManager =
             [NoPluginManager EXCEPT
                 !.pluginCache = c,
                 !.imported = [k \in PluginKeys |-> IF k \in c THEN 1 ELSE 0],
                 !.registered = {[plugin |-> k, options |-> RegisterOptions(k[1], "o1"),
                                  cached |-> FALSE] : k \in c}]

NextBatch ==
    \/ \E l \in BatchLists : pluginManager.calls = 0 /\ LoadLocalPlugins("t1", l)
    \/ \E l \in BatchLists : pluginManager.calls = 0 /\ LoadNPMPlugins("t1", l)
    \/ \E r \in BOOLEAN : PluginNamesStep("t1", r)
    \/ PluginPathStep("t1")
    \/ PluginImportStep("t1")
    \/ \E r \in BOOLEAN : PluginRegisterStep("t1", r)

SpecBatch == InitBatch /\ [][NextBatch]_vars

\* The call of task t.
PluginTask(t) == pluginManager.task[t]
\* The cache key of the name the call of task t loads.
PluginKey(t) == PluginCacheKey(PluginTask(t).kind, PluginTask(t).name)

\* In this step task t begins loadLocalPlugin or loadNPMPlugin for a
\* name, called on its own or by a batch loader.
StartsPlugin(t) ==
    /\ pluginManager'.task[t].pc \in {"registerCached", "pathExists", "import", "register"}
    /\ \/ PluginTask(t).pc \in {"idle", "getNPMPluginNames"}
       \/ pluginManager'.task[t].queue # PluginTask(t).queue

\* A call that begins with the name in the cache registers the cached
\* callable with its own options and imports nothing.
CachedIsRegistered ==
    [][\A t \in Tasks :
         /\ (StartsPlugin(t)
             /\ PluginCacheKey(pluginManager'.task[t].kind, pluginManager'.task[t].name)
                   \in pluginManager.pluginCache)
            => pluginManager'.task[t].pc = "registerCached"
         /\ (PluginTask(t).pc = "registerCached" /\ pluginManager'.task[t] # PluginTask(t))
            => /\ pluginManager'.imported = pluginManager.imported
               /\ pluginManager'.pluginCache = pluginManager.pluginCache
               /\ pluginManager'.registered =
                     pluginManager.registered \cup
                        {[plugin |-> PluginKey(t),
                          options |-> RegisterOptions(PluginTask(t).kind,
                                                      PluginTask(t).options),
                          cached |-> TRUE]}]_vars

\* C21 as stated: a call for a cached name registers the cached callable
\* with the options of that call and never loads from source, and no name
\* is loaded from source again once it has been loaded successfully.
C21_LoadedOnce ==
    /\ CachedIsRegistered
    /\ [](pluginManager.reimported = {})

\* C21: every call that begins once the name is in the cache registers
\* the cached callable with the options of that call and never loads the
\* unit from source; a name is loaded from source again only by a call
\* that begun before the name was cached, at an await between its cache
\* test and its import.
C21_CachedNeverReloads ==
    /\ CachedIsRegistered
    /\ [][\A k \in pluginManager'.reimported \ pluginManager.reimported :
            \E t \in Tasks : PluginTask(t).pc = "import" /\ PluginKey(t) = k]_vars

\* A plugin loaded and registered with one options object was registered
\* again from the cache with another one, with a single import.
C21_Witness ==
    /\ pluginManager.imported[PluginCacheKey("local", IdA)] = 1
    /\ pluginManager.registered =
          {[plugin |-> PluginCacheKey("local", IdA), options |-> <<"o1", "fastify">>,
            cached |-> FALSE],
           [plugin |-> PluginCacheKey("local", IdA), options |-> <<"o2", "fastify">>,
            cached |-> TRUE]}

\* A batch loader has returned.
BatchDone == pluginManager.ret.op = "batch"

\* C22: a batch loader attempts every name in list order whatever the
\* outcome of earlier names, a name whose load throws included: results
\* has one entry per name in the order of the list, total is the number
\* of names and successCount the number of entries with success true.
C22_OneEntryPerName ==
    /\ [](BatchDone
          => LET r == pluginManager.ret
             IN  /\ Len(r.results) = Len(r.names)
                 /\ \A i \in 1..Len(r.names) : r.results[i].plugin = r.names[i]
                 /\ r.total = Len(r.names)
                 /\ r.successCount =
                       Cardinality({i \in 1..Len(r.results) : r.results[i].success})
                 /\ \A i \in 1..Len(r.results) :
                       r.results[i].success => PluginModule(r.kind, r.names[i]) = "function")
    /\ [](\A t \in Tasks :
            (PluginTask(t).batch /\ PluginTask(t).pc \notin {"idle", "getNPMPluginNames"})
            => /\ PluginTask(t).queue # << >>
               /\ PluginTask(t).name = Head(PluginTask(t).queue)
               /\ Len(PluginTask(t).results) + Len(PluginTask(t).queue)
                     = Len(PluginTask(t).names)
               /\ \A i \in 1..Len(PluginTask(t).results) :
                     PluginTask(t).results[i].plugin = PluginTask(t).names[i])

\* loadLocalPlugins went on after a name whose load threw and loaded the
\* name after it.
C22_Witness ==
    /\ BatchDone
    /\ pluginManager.ret.kind = "local"
    /\ pluginManager.ret.names = <<IdBad, IdA>>
    /\ pluginManager.ret.successCount = 1
    /\ pluginManager.ret.results[1] = ResultEntry(IdBad, FALSE, "invalid characters")
    /\ pluginManager.ret.results[2] = ResultEntry(IdA, TRUE, "")

\* ------------------------------------------------------ the config loader
\* A loader about to load the configuration of one directory.
InitConfig ==
    /\ registry = [i \in {} |-> NoCtx]
    /\ maxTenants = MaxTenants
    /\ disk = Disk
    /\ trusted = {}
    /\ loadedResources = [k \in {} |-> {}]
    /\ app = {}
    /\ loadedOnce = {}
    /\ loadedAgain = {}
    /\ nextOid = 1
    /\ calls = 0
    /\ task = [t \in Tasks |-> IdleTask]
    /\ ret = NoRet
    /\ pluginManager = NoPluginManager
    /\ pathCall = NoPathCall
    /\ \E d \in {"ok", "missing", "traversal"}, c \in ConfigPool, n \in 0..MaxConfigFiles :
          \E f \in [1..n -> ConfigPool], b \in SUBSET (1..n) :
             unitCall = [op |-> "loadConfig", dir |-> d, defaults |-> c,
                         configFiles |-> f, broken |-> b, done |-> FALSE]

\* ResourceLoader.loadConfig(configPath, defaults) returns.
LoadConfigCall ==
    /\ unitCall.op = "loadConfig"
    /\ ~unitCall.done
    /\ unitCall' = [op |-> "loadConfig", dir |-> unitCall.dir,
                    defaults |-> unitCall.defaults,
                    configFiles |-> unitCall.configFiles, broken |-> unitCall.broken,
                    done |-> TRUE,
                    result |-> LoadConfigDir(unitCall.dir, unitCall.defaults,
                                             unitCall.configFiles, unitCall.broken)]
    /\ UNCHANGED <<registry, maxTenants, disk, trusted, loadedResources, app,
                   loadedOnce, loadedAgain, nextOid, calls, task, ret, pathCall,
                   pluginManager>>

NextConfig == LoadConfigCall

SpecConfig == InitConfig /\ [][NextConfig]_vars

\* A call of loadConfig on an existing directory has returned.
ConfigLoaded == unitCall.op = "loadConfig" /\ unitCall.done /\ unitCall.dir = "ok"

\* The config files of the call that loaded, in order.
GoodFiles == {i \in 1..Len(unitCall.configFiles) : i \notin unitCall.broken}

\* a and b are the same value.
RECURSIVE Same(_, _)
Same(a, b) ==
    /\ a.t = b.t
    /\ IF a.t = "obj"
       THEN /\ DOMAIN a.v = DOMAIN b.v
            /\ \A k \in DOMAIN a.v : Same(a.v[k], b.v[k])
       ELSE a.v = b.v

\* C23: a later source overrides an earlier one key by key: a scalar or a
\* sequence of the last source that loaded is the value of the result
\* (the sequence replaces the earlier one), and a nested object of the
\* last source overrides key by key in the same way.
C23_LaterOverrides ==
    (ConfigLoaded /\ GoodFiles # {})
    => LET last == unitCall.configFiles[CHOOSE i \in GoodFiles : \A j \in GoodFiles : j <= i]
           out == unitCall.result.config
       IN  \A k \in DOMAIN last.v :
              /\ k \in DOMAIN out.v
              /\ last.v[k].t # "obj" => Same(out.v[k], last.v[k])
              /\ last.v[k].t = "obj"
                 => /\ out.v[k].t = "obj"
                    /\ \A n \in DOMAIN last.v[k].v :
                          /\ n \in DOMAIN out.v[k].v
                          /\ Same(out.v[k].v[n], last.v[k].v[n])

\* The files of the list that loaded, in the order of the list.
RECURSIVE Kept(_, _, _)
Kept(configFiles, broken, i) ==
    IF i > Len(configFiles) THEN << >>
    ELSE IF i \in broken THEN Kept(configFiles, broken, i + 1)
    ELSE <<configFiles[i]>> \o Kept(configFiles, broken, i + 1)

\* C29: loadConfig never throws.  With a missing directory or no config
\* file it returns the defaults unchanged; a config file that fails to
\* load contributes nothing and every other file is still merged: the
\* result is the result for the list without the failing files.
C29_BadFileSkipped ==
    (unitCall.op = "loadConfig" /\ unitCall.done)
    => /\ ~unitCall.result.threw
       /\ (unitCall.dir # "ok" \/ unitCall.configFiles = << >>)
          => Same(unitCall.result.config, unitCall.defaults)
       /\ unitCall.dir = "ok"
          => /\ Same(unitCall.result.config,
                     LoadConfigDir("ok", unitCall.defaults,
                                   Kept(unitCall.configFiles, unitCall.broken, 1), {}).config)
             /\ GoodFiles = {} => Same(unitCall.result.config, unitCall.defaults)
             /\ \A k \in DOMAIN unitCall.result.config.v :
                   \/ k \in DOMAIN unitCall.defaults.v
                   \/ \E i \in GoodFiles : k \in DOMAIN unitCall.configFiles[i].v
             /\ \A i \in GoodFiles :
                   DOMAIN unitCall.configFiles[i].v \subseteq DOMAIN unitCall.result.config.v

\* The first of two config files failed to load and left nothing in the
\* result, the second one was merged.
C29_Witness ==
    /\ ConfigLoaded
    /\ Len(unitCall.configFiles) = 2
    /\ unitCall.broken = {1}
    /\ unitCall.defaults.v = NoCfg
    /\ DOMAIN unitCall.configFiles[1].v = {"db"}
    /\ DOMAIN unitCall.configFiles[2].v = {"tags"}
    /\ DOMAIN unitCall.result.config.v = {"tags"}
    /\ unitCall.result.config.v.tags.v = <<"y">>

\* ------------------------------------------------------------------
\* The order of the resource stages of one build.
StageRank(pc) ==
    IF pc = "schemas" THEN 1
    ELSE IF pc \in {"services", "svcLoad"} THEN 2
    ELSE IF pc = "plugins" THEN 3
    ELSE IF pc = "routes" THEN 4
    ELSE IF pc = "register" THEN 5
    ELSE 0

\* The directory of the stage of rank r exists under root.
StageDirExists(root, r) ==
    IF r = 1 THEN Layout(root).schemas
    ELSE IF r = 2 THEN Layout(root).services
    ELSE IF r = 3 THEN Len(Layout(root).plugins) > 0
    ELSE IF r = 4 THEN Layout(root).routes
    ELSE FALSE

\* Task t is inside the resource loading of a build by the adapter type.
InStages(t, type) ==
    /\ task[t].adapter = type
    /\ StageRank(task[t].pc) \in 1..4

\* Task t is inside the resource loading of a build by the local
\* adapter, or about to enter it from loadConfig.
InLocalBuild(t) ==
    \/ InStages(t, "local")
    \/ task[t].adapter = "local" /\ task[t].pc = "loadConfig"

\* One step of a build takes it to a stage that is not earlier, and
\* jumps over no stage whose directory exists.
StagesInOrder(t) ==
    LET root == TenantPath(task'[t].ctx.config)
        from == StageRank(task[t].pc)
        to == StageRank(task'[t].pc)
    IN  (task'[t].pc # task[t].pc /\ to > 0)
            => /\ to >= from
               /\ to >= from + 1 \/ task[t].pc = "services"
               /\ \A r \in 1..4 : (from < r /\ r < to) => ~StageDirExists(root, r)
               /\ to \in 1..4 => StageDirExists(root, to)

\* The entries a step adds to the application.
AddedToApp == app' \ app

\* C24: LocalTenantAdapter.loadResources loads the schemas, then the
\* services, then the plugins, then the routes, each stage beginning only
\* after the one before it has ended, and registers the routes with the
\* prefix "/" followed by the tenant id.
C24_LocalStagesInOrder ==
    [][ InLocalBuild("t1") =>
            /\ StagesInOrder("t1")
            /\ \A e \in AddedToApp :
                   /\ (e.what = "routes") = (task["t1"].pc = "routes")
                   /\ e.what = "routes" => e.prefix = <<"/">> \o task["t1"].ctx.id
                   /\ e.what = "schema" => task["t1"].pc = "schemas"
                   /\ e.what = "plugin" => task["t1"].pc = "plugins" ]_vars

\* A local build whose root has a services and a routes directory has
\* returned its context with both loaded and the routes registered.
C24_Witness ==
    /\ ret.result = "ctx"
    /\ ret.ctx.type = "local"
    /\ ret.ctx.services # {}
    /\ ret.ctx.routes # {}
    /\ \E e \in app : e.what = "routes" /\ e.prefix = <<"/">> \o ret.ctx.id

\* ------------------------------------------------------------------
\* Task t is in NPMTenantAdapter.loadResources: at the import of the
\* package or inside loadPackageResources.
InPackageBuild(t) ==
    \/ InStages(t, "npm")
    \/ task[t].adapter = "npm" /\ task[t].pc = "main"

\* config.path && config.isTrustedPath
RootTrusted(config) == config.path # NoId /\ config.isTrustedPath

\* C25: NPMTenantAdapter.loadResources registers a function export of
\* the package before any internal resource, loads the internal schemas,
\* services, plugins and routes in that order and only when the package
\* root is set and trusted, and loads no internal resource otherwise.
C25_PackageStages ==
    /\ [](InStages("t1", "npm") =>
            /\ RootTrusted(task["t1"].ctx.config)
            /\ PkgRoot(task["t1"].src) \in trusted
            /\ PkgExport(task["t1"].src).isFunction =>
                   task["t1"].src \in task["t1"].ctx.plugins)
    /\ [][ InPackageBuild("t1") =>
              /\ RootTrusted(task["t1"].ctx.config) => StagesInOrder("t1")
              /\ \A e \in AddedToApp :
                     /\ (e.what = "main") = (task["t1"].pc = "main")
                     /\ e.what = "main" =>
                            /\ PkgExport(task["t1"].src).isFunction
                            /\ e.prefix = <<"/">> \o task["t1"].ctx.id
                     /\ e.what = "schema" => task["t1"].pc = "schemas"
                     /\ e.what = "plugin" => task["t1"].pc = "plugins"
                     /\ e.what = "routes" => task["t1"].pc = "routes"
              /\ (task["t1"].pc = "main" /\ ~RootTrusted(task["t1"].ctx.config))
                     => /\ task'["t1"].pc = "register"
                        /\ task'["t1"].ctx.schemas = {}
                        /\ task'["t1"].ctx.services = {}
                        /\ task'["t1"].ctx.routes = {}
                        /\ task'["t1"].ctx.plugins \subseteq {task["t1"].src} ]_vars

\* A package whose root has a schemas and a routes directory has been
\* built with its internal resources, and a later build of it whose
\* config file clears isTrustedPath has returned a context with the
\* function export registered and no internal resource.
C25_Witness ==
    /\ ret.result = "ctx"
    /\ ret.ctx.type = "npm"
    /\ ~ret.ctx.config.isTrustedPath
    /\ ret.ctx.plugins = {PkgC}
    /\ ret.ctx.schemas = {} /\ ret.ctx.routes = {}
    /\ <<"schemas", SubPath(PkgRoot(PkgC), "schemas")>> \in loadedOnce
    /\ \E e \in app : e.what = "routes" /\ e.path = SubPath(PkgRoot(PkgC), "routes")

\* ------------------------------------------------------------------
\* The trusted package paths of the PathResolver.
\* The paths isTrustedPath is asked about: every short path, a package
\* root and a directory below it.
TrustProbes ==
    PathsUpTo(MaxPathLen - 1) \cup {PkgRoot(PkgA), SubPath(PkgRoot(PkgA), "routes")}

InitTrust ==
    /\ registry = [i \in {} |-> NoCtx]
    /\ maxTenants = MaxTenants
    /\ disk = Disk
    /\ trusted = {}
    /\ loadedResources = [k \in {} |-> {}]
    /\ app = {}
    /\ loadedOnce = {}
    /\ loadedAgain = {}
    /\ nextOid = 1
    /\ calls = 0
    /\ task = [t \in Tasks |-> IdleTask]
    /\ ret = NoRet
    /\ pluginManager = NoPluginManager
    /\ \E p \in TrustProbes : pathCall = [filePath |-> p, isTrusted |-> "none"]
    /\ unitCall = NoUnitCall

\* The call of isTrustedPath(filePath) returns.
IsTrustedPathCall ==
    /\ pathCall.isTrusted = "none"
    /\ pathCall' = [pathCall EXCEPT !.isTrusted =
                        IF IsTrustedPath(trusted, pathCall.filePath) THEN "true" ELSE "false"]
    /\ UNCHANGED <<registry, maxTenants, disk, trusted, loadedResources, app,
                   loadedOnce, loadedAgain, nextOid, calls, task, ret, unitCall,
                   pluginManager>>

\* Loads of a package and of a name that resolves to nothing, calls of
\* addTrustedPath and one call of isTrustedPath.
NextTrust ==
    \/ \E s \in {PkgA, RawC} : LoadTenant("t1", s, NoId)
    \/ ProbeLocal("t1")
    \/ ProbeNpm("t1")
    \/ ConfigStep("t1", NoCfg)
    \/ MainStep("t1")
    \/ ServicesStep("t1")
    \/ SvcLoadStep("t1")
    \/ RegisterStep("t1")
    \/ \E p \in TrustedRoots : AddTrustedPath(p)
    \/ IsTrustedPathCall

SpecTrust == InitTrust /\ [][NextTrust]_vars

\* The step is a call of getModuleInfo(specifier) by task t: the probe of
\* the package adapter or its loadConfig.
ResolvesPackage(t) ==
    \/ task[t].pc = "probeNpm" /\ task'[t].pc # "probeNpm"
    \/ task[t].pc = "loadConfig" /\ task[t].adapter = "npm" /\ task'[t].pc # "loadConfig"

\* The trusted paths grow only, by the root of a package that resolves
\* or by the path given to addTrustedPath; a resolution that fails adds
\* nothing.
TrustedGrowsOnly ==
    [][ /\ trusted \subseteq trusted'
        /\ trusted' # trusted =>
               \/ /\ ResolvesPackage("t1")
                  /\ PkgResolves(task["t1"].src)
                  /\ trusted' = trusted \cup {PkgRoot(task["t1"].src)}
               \/ /\ task' = task
                  /\ \E p \in TrustedRoots : trusted' = trusted \cup {PathResolve(BaseDir, p)}
        /\ ResolvesPackage("t1") =>
               IF PkgResolves(task["t1"].src)
               THEN PkgRoot(task["t1"].src) \in trusted'
               ELSE trusted' = trusted ]_vars

\* C26 as stated: the trusted paths grow only, as above, and
\* isTrustedPath(p) is true exactly when a trusted path is a prefix of p.
C26_TrustedPrefixOfInput ==
    /\ TrustedGrowsOnly
    /\ [][ pathCall' # pathCall =>
              ((pathCall'.isTrusted = "true") <=>
                   \E m \in trusted : StartsWith(pathCall.filePath, m)) ]_vars

\* C26, amended: the trusted paths grow only, as above, and
\* isTrustedPath(p) is true exactly when a trusted path is a prefix of
\* path.resolve(p), the absolute normalised form of p.
C26_TrustedPrefixOfResolved ==
    /\ TrustedGrowsOnly
    /\ [][ pathCall' # pathCall =>
              ((pathCall'.isTrusted = "true") <=>
                   \E m \in trusted :
                       StartsWith(PathResolve(BaseDir, pathCall.filePath), m)) ]_vars

\* A package was resolved and its root is trusted, a later name resolved
\* to nothing, addTrustedPath added a root, and isTrustedPath answered
\* true for a directory below the package root.
C26_Witness ==
    /\ PkgRoot(PkgA) \in trusted
    /\ ret.why = "NoAdapterFound"
    /\ \E p \in TrustedRoots : PathResolve(BaseDir, p) \in trusted
    /\ pathCall.filePath = SubPath(PkgRoot(PkgA), "routes")
    /\ pathCall.isTrusted = "true"

\* ------------------------------------------------------------------
\* C27: PathResolver.resolvePath of an absolute path returns the path as
\* given and does not throw, whatever the trusted paths and the
\* allowTrusted option are; only a relative path can be rejected.
C27_AbsolutePassesThrough ==
    pathCall.result.done =>
        /\ IsAbsolute(pathCall.relativePath) =>
               /\ ~pathCall.result.threw
               /\ pathCall.result.path = pathCall.relativePath
        /\ pathCall.result.threw => ~IsAbsolute(pathCall.relativePath)

\* resolvePath has returned, unchanged, an absolute path that is outside
\* the base directory and every trusted path and is not normalised, with
\* allowTrusted set and a trusted path present.
C27_Witness ==
    /\ pathCall.result.done
    /\ pathCall.relativePath = <<"/", "x", "/", ".", ".">>
    /\ pathCall.allowTrusted
    /\ trusted = {<<"/", "b", "/", "x">>}
    /\ ~IsTrustedPath(trusted, pathCall.relativePath)
    /\ ~pathCall.result.threw
    /\ pathCall.result.path = pathCall.relativePath

\* ------------------------------------------------------------------
\* SecurityValidator
\* The characters of the strings handed to the validators: two of
\* [A-Za-z0-9_-], one outside it, and the path separator.
IdChars == {"a", "-", "!", "/"}

\* The values handed to the validators: strings, and values that are not
\* strings (null, undefined, numbers, an object, an array).
ValidatorInputs ==
    {Str(s) : s \in UNION {[1..n -> IdChars] : n \in 0..MaxIdLen}}
    \cup {[t |-> "null", v |-> 0], [t |-> "undefined", v |-> 0],
          [t |-> "num", v |-> 0], [t |-> "num", v |-> 5],
          Obj([k \in {} |-> 0]), Arr(<<"a">>)}

\* !x of JavaScript
Falsy(x) ==
    \/ x.t \in {"null", "undefined"}
    \/ x.t = "str" /\ x.v = << >>
    \/ x.t = "num" /\ x.v = 0

\* The validator threw; the validator returned value.
ValidatorThrew == [threw |-> TRUE, value |-> [t |-> "undefined", v |-> 0]]
ValidatorReturns(value) == [threw |-> FALSE, value |-> value]

\* validateTenantId that returns the sanitized string whenever it is not
\* empty.
ValidateTenantId_Sanitizing(tenantId) ==
    IF Falsy(tenantId) \/ tenantId.t # "str" THEN ValidatorThrew
    ELSE LET sanitized == Sanitize(tenantId.v)
         IN  IF Len(sanitized) = 0 THEN ValidatorThrew ELSE ValidatorReturns(Str(sanitized))

\* SecurityValidator.validateTenantId(tenantId)
ValidateTenantId(tenantId) ==
    IF Falsy(tenantId) \/ tenantId.t # "str" THEN ValidatorThrew
    ELSE LET sanitized == Sanitize(tenantId.v)
         IN  IF sanitized # tenantId.v \/ Len(sanitized) = 0 THEN ValidatorThrew
             ELSE ValidatorReturns(Str(sanitized))

\* SecurityValidator.validatePluginName(pluginName)
ValidatePluginName(pluginName) ==
    IF Falsy(pluginName) \/ pluginName.t # "str" THEN ValidatorThrew
    ELSE LET sanitized == Sanitize(pluginName.v)
         IN  IF sanitized # pluginName.v \/ Len(sanitized) = 0 THEN ValidatorThrew
             ELSE ValidatorReturns(Str(sanitized))

InitValidate ==
    /\ registry = [i \in {} |-> NoCtx]
    /\ maxTenants = MaxTenants
    /\ disk = Disk
    /\ trusted = {}
    /\ loadedResources = [k \in {} |-> {}]
    /\ app = {}
    /\ loadedOnce = {}
    /\ loadedAgain = {}
    /\ nextOid = 1
    /\ calls = 0
    /\ task = [t \in Tasks |-> IdleTask]
    /\ ret = NoRet
    /\ pluginManager = NoPluginManager
    /\ pathCall = NoPathCall
    /\ \E x \in ValidatorInputs : unitCall = [op |-> "validate", input |-> x, done |-> FALSE]

\* validateTenantId(input) and validatePluginName(input) return or throw.
ValidateCall ==
    /\ unitCall.op = "validate"
    /\ ~unitCall.done
    /\ unitCall' = [op |-> "validate", input |-> unitCall.input, done |-> TRUE,
                    tenantId |-> ValidateTenantId(unitCall.input),
                    pluginName |-> ValidatePluginName(unitCall.input)]
    /\ UNCHANGED <<registry, maxTenants, disk, trusted, loadedResources, app,
                   loadedOnce, loadedAgain, nextOid, calls, task, ret, pathCall,
                   pluginManager>>

NextValidate == ValidateCall

SpecValidate == InitValidate /\ [][NextValidate]_vars

\* x is a non-empty string of characters of [A-Za-z0-9_-].
WellFormedId(x) ==
    /\ x.t = "str"
    /\ Len(x.v) > 0
    /\ \A i \in 1..Len(x.v) : x.v[i] \in AllowedChars

\* C28: a validator returns its input unchanged exactly when the input is
\* a non-empty string of characters of [A-Za-z0-9_-] and throws for every
\* other input; validateTenantId and validatePluginName accept and
\* reject the same inputs.
C28_ValidatorsAgree ==
    (unitCall.op = "validate" /\ unitCall.done) =>
        /\ unitCall.tenantId.threw = ~WellFormedId(unitCall.input)
        /\ ~unitCall.tenantId.threw => unitCall.tenantId.value = unitCall.input
        /\ unitCall.pluginName.threw = unitCall.tenantId.threw
        /\ ~unitCall.pluginName.threw => unitCall.pluginName.value = unitCall.input

\* Both validators have returned a string with a hyphen unchanged.
C28_Witness ==
    /\ unitCall.op = "validate" /\ unitCall.done
    /\ unitCall.input = Str(<<"a", "-", "a">>)
    /\ ~unitCall.tenantId.threw /\ ~unitCall.pluginName.threw
    /\ unitCall.tenantId.value = unitCall.input

\* ------------------------------------------------------------------
\* MultiTenantServer.initTenant(tenantId) on a started server: it calls
\* loadTenant(app, tenantId) with the name as the source and no explicit
\* id, returns the context and throws when loadTenant returned null.
InitTenant(result) == IF result = "ctx" THEN "returns" ELSE "throws"

\* Task t runs the loadTenant of an initTenant: no explicit id is given.
OfInitTenant(t) == task[t].op = "load" /\ task[t].cid = NoId

\* C30: whenever initTenant(name) returns, the tenant it returns has the
\* id name, is active and is the registry's entry for that id; when the
\* build yields no tenant, initTenant throws.
C30_InitTenantIdIsName ==
    [][ (OfInitTenant("t1") /\ LoadReturns("t1")) =>
            /\ InitTenant(ret'.result) = "returns" =>
                   /\ ret'.ctx.id = task["t1"].src
                   /\ ret'.ctx.active
                   /\ GetTenant(registry', ret'.ctx.id) = ret'.ctx
            /\ InitTenant(ret'.result) = "throws" => ret'.result = "null" ]_vars

\* ------------------------------------------------------------------
\* The entries of the plugins directory below root whose loadPlugin
\* returns true.
LoadedPlugins(root) ==
    LET pluginDirs == Layout(root).plugins
    IN  {pluginDirs[i] : i \in {j \in 1..Len(pluginDirs) :
                                  LoadPlugin(SubPath(SubPath(root, "plugins"), pluginDirs[j]))}}

\* C31: once the plugins of a local tenant have been gone through, the
\* plugin set of the context holds exactly the entries of the plugins
\* directory whose loadPlugin returned true; loadPlugin returns false
\* for an entry with no index.mjs, with an export that is not a function
\* or whose registration throws, and after such an entry the remaining
\* plugins and the routes are still loaded.
C31_PluginSetIsLoaded ==
    \A t \in Tasks :
        (task[t].adapter = "local" /\ task[t].pc \in {"routes", "register"})
        => LET root == TenantPath(task[t].ctx.config)
           IN  /\ task[t].ctx.plugins = LoadedPlugins(root)
               /\ \A i \in 1..Len(Layout(root).plugins) :
                     LET pluginPath == SubPath(SubPath(root, "plugins"), Layout(root).plugins[i])
                     IN  (PluginIndex(pluginPath) # "function" \/ RegisterThrows(pluginPath))
                            => ~LoadPlugin(pluginPath)
               /\ (task[t].pc = "register" /\ Layout(root).routes)
                     => SubPath(root, "routes") \in task[t].ctx.routes

\* A local tenant whose plugins directory lists a plugin that loads, one
\* without index.mjs, one that exports an object, one whose registration
\* throws and a last one that loads has been built: the context holds
\* the first and the last, and the routes.
C31_Witness ==
    /\ ret.result = "ctx"
    /\ ret.ctx.type = "local"
    /\ Layout(TenantPath(ret.ctx.config)).plugins = <<"p", "q", "r", "s", "t">>
    /\ ret.ctx.plugins = {"p", "t"}
    /\ ret.ctx.routes # {}

\* ------------------------------------------------------------------
\* TenantRegistry.getStats
\* The number of entries of the registry tenants that satisfy Test.
CountTenants(tenants, Test(_)) == Cardinality({i \in DOMAIN tenants : Test(tenants[i])})

RECURSIVE SumServices(_, _)
\* tenants.reduce((sum, t) => sum + t.listServices().length, 0) over the
\* entries with the ids in ids.
SumServices(tenants, ids) ==
    IF ids = {} THEN 0
    ELSE LET i == CHOOSE j \in ids : TRUE
         IN  Cardinality(tenants[i].services) + SumServices(tenants, ids \ {i})

\* TenantRegistry.getStats()
GetStats(tenants) ==
    [total |-> Cardinality(DOMAIN tenants),
     active |-> CountTenants(tenants, LAMBDA c : c.active),
     inactive |-> CountTenants(tenants, LAMBDA c : ~c.active),
     types |-> [y \in {tenants[i].type : i \in DOMAIN tenants} |->
                   CountTenants(tenants, LAMBDA c : c.type = y)],
     servicesLoaded |-> SumServices(tenants, DOMAIN tenants)]

\* A call of getStats() returns (a call that returns what the last one
\* returned is left out).
GetStatsCall ==
    /\ unitCall' = [op |-> "getStats", result |-> GetStats(registry)]
    /\ unitCall' # unitCall
    /\ UNCHANGED <<registry, maxTenants, disk, trusted, loadedResources, app,
                   loadedOnce, loadedAgain, nextOid, calls, task, ret, pathCall,
                   pluginManager>>

NextStats == NextFactory \/ GetStatsCall

SpecStats == Init /\ [][NextStats]_vars

RECURSIVE SumCounts(_, _)
\* The sum of the counts of the function types over the keys in keys.
SumCounts(types, keys) ==
    IF keys = {} THEN 0
    ELSE LET y == CHOOSE z \in keys : TRUE
         IN  types[y] + SumCounts(types, keys \ {y})

\* C32: every registered context has active = true (a config whose
\* active is false is skipped before a context is built), and getStats()
\* reports inactive = 0, active = total, total equal to the size of the
\* registry and per-type counts that sum to total.
C32_StatsAllActive ==
    /\ [](\A i \in DOMAIN registry : registry[i].active = TRUE)
    /\ [][ unitCall' # unitCall =>
              LET stats == unitCall'.result
              IN  /\ stats.inactive = 0
                  /\ stats.active = stats.total
                  /\ stats.total = Cardinality(DOMAIN registry)
                  /\ SumCounts(stats.types, DOMAIN stats.types) = stats.total ]_vars

\* A load of a tenant whose config says active: false returned null after
\* a local tenant was registered, and getStats() then reported
\* one tenant, of type local, active.
C32_Witness ==
    /\ ret.why = "inactive"
    /\ unitCall.op = "getStats"
    /\ unitCall.result.total = 1
    /\ unitCall.result.active = 1
    /\ unitCall.result.inactive = 0
    /\ unitCall.result.types = [y \in {"local"} |-> 1]
    /\ unitCall.result = GetStats(registry)

\* ------------------------------------------------------------------
\* reloadTenant of a registered tenant
\* The context that loadTenant(app, DirB) registers when config.json has
\* no key: the tenant "b" with its routes.
TenantB ==
    [NewContext(1, IdB, LocalLoadConfig(DirB, Defaults(IdB, DirB), NoCfg), "local")
        EXCEPT !.routes = {SubPath(DirB, "routes")}]

\* The manager after that load has returned.
InitReload ==
    /\ registry = [i \in {IdB} |-> TenantB]
    /\ maxTenants = MaxTenants
    /\ disk = Disk
    /\ trusted = {}
    /\ loadedResources = [k \in {} |-> {}]
    /\ app = {[what |-> "routes", path |-> SubPath(DirB, "routes"), tenant |-> IdB,
               prefix |-> <<"/">> \o IdB]}
    /\ loadedOnce = {<<"config", DirB>>, <<"plugin", SubPath(DirB, "routes")>>}
    /\ loadedAgain = {}
    /\ nextOid = 2
    /\ calls = 0
    /\ task = [t \in Tasks |-> IdleTask]
    /\ ret = NoRet
    /\ pluginManager = NoPluginManager
    /\ pathCall = NoPathCall
    /\ unitCall = NoUnitCall

\* The steps of the builds of the tenant directory DirB.
BuildSteps ==
    \/ \E t \in Tasks : ProbeLocal(t)
    \/ \E t \in Tasks, f \in CfgVariants : ConfigStep(t, f)
    \/ \E t \in Tasks : RoutesStep(t)
    \/ \E t \in Tasks : RegisterStep(t)

\* Calls of reloadTenant("b") and of loadTenant for the same directory.
NextReload ==
    \/ \E t \in Tasks : ReloadTenant(t, IdB)
    \/ \E t \in Tasks : LoadTenant(t, DirB, NoId)
    \/ BuildSteps

SpecReload == InitReload /\ [][NextReload]_vars

\* The loadTenant inside the reloadTenant of task t returns null in this
\* step.
ReloadReturnsNull(t) ==
    /\ task[t].op = "reload"
    /\ LoadReturns(t)
    /\ ret'.result = "null"

\* C33 as stated: when the rebuild of reloadTenant(id) yields no context,
\* reloadTenant returns null and a lookup of id returns null afterwards.
C33_FailedReloadLeavesNothing ==
    [][\A t \in Tasks :
          ReloadReturnsNull(t)
          => /\ ret'.op = "reload" /\ ret'.id = task[t].id
             /\ GetTenant(registry', task[t].id) = NoCtx]_vars

\* C33, amended: when the rebuild of reloadTenant(id) yields no context,
\* reloadTenant returns null and restores nothing: the reloading
\* operation changes the registry only by the register of a context it
\* built, so the old context is never stored again, and a lookup of id
\* returns null unless an overlapping operation registered a context
\* under id during the rebuild.
C33_FailedReloadRestoresNothing ==
    /\ [][\A t \in Tasks :
            ReloadReturnsNull(t)
            => /\ ret'.op = "reload" /\ ret'.id = task[t].id
               /\ ret'.why \in {"NoAdapterFound", "inactive", "InvalidIdentifier",
                                "TenantBuildFailure", "CapacityExceeded"}
               /\ registry' = registry
               /\ GetTenant(registry', task[t].id).oid # task[t].old]_vars
    /\ [][\A t \in Tasks :
            (InGap(t) /\ Steps(t) /\ registry' # registry)
            => /\ LoadReturns(t)
               /\ ret'.result = "ctx"
               /\ ret'.ctx.oid # task[t].old]_vars
    /\ [][\A t \in Tasks :
            (~InGap(t) /\ InGap(t)') => GetTenant(registry', task'[t].id) = NoCtx]_vars

\* A reloadTenant whose tenant had become inactive returned null, and the
\* registry holds nothing under its id.
C33_Witness ==
    /\ ret.op = "reload"
    /\ ret.result = "null"
    /\ ret.why = "inactive"
    /\ GetTenant(registry, ret.id) = NoCtx

\* ------------------------------------------------------------------
\* Calls of reloadTenant and of unloadTenant, the operations that
\* register no tenant that was not registered before.
NextReloads ==
    \/ \E t \in Tasks, i \in CallIds : ReloadTenant(t, i)
    \/ \E t \in Tasks, i \in CallIds : UnloadTenant(t, i)
    \/ BuildSteps

SpecReloads == InitReload /\ [][NextReloads]_vars

HostHolds(host, c) ==
    /\ \A s \in c.schemas : \E e \in host : e.what = "schema" /\ e.path = s
    /\ \A r \in c.routes :
          \E e \in host : e.what = "routes" /\ e.path = r /\ e.tenant = c.id
    /\ (c.type = "local" /\ c.plugins # {})
          => \E e \in host : e.what = "plugin" /\ e.tenant = c.id

\* C35: the capacity of the registry is tested only by the register that
\* follows a complete build: a load ends with CapacityExceeded only in
\* that step, it then returns null and leaves the registry as it was,
\* and what the build registered with the host application (and cached)
\* stays there.
C35_CapacityAfterBuild ==
    [][\A t \in Tasks :
          (Steps(t) /\ ret' # ret /\ ret'.why = "CapacityExceeded")
          => /\ task[t].pc = "register"
             /\ task[t].ctx # NoCtx
             /\ Cardinality(DOMAIN registry) >= maxTenants
             /\ ret'.result = "null"
             /\ registry' = registry
             /\ app' = app
             /\ loadedResources' = loadedResources
             /\ HostHolds(app', task[t].ctx)]_vars

\* A tenant with routes was built while the registry was full and
\* rejected: it is not in the registry, and its routes are registered
\* with the host application.
C35_Witness ==
    /\ ret.why = "CapacityExceeded"
    /\ ret.result = "null"
    /\ ret.ctx.id \notin DOMAIN registry
    /\ ret.ctx.routes # {}
    /\ HostHolds(app, ret.ctx)

\* ------------------------------------------------------------------
\* id is a non-empty string of characters of [A-Za-z0-9_-].
IsIdentifier(id) ==
    /\ Len(id) > 0
    /\ \A i \in 1..Len(id) : id[i] \in AllowedChars

\* A candidate after the first one of the request is a valid identifier.
LaterCandidateValid ==
    \/ HostCandidate # NoId /\ IsIdentifier(PathCandidate)
    \/ (HostCandidate # NoId \/ PathCandidate # NoId) /\ IsIdentifier(HeaderCandidate)

\* C36: in the composite strategy the first source that gives a candidate
\* decides: when that candidate is not a valid identifier the result is
\* the default id, whether or not a later source would give a valid one;
\* extractTenantId never throws and returns the default id or a string
\* of characters of [A-Za-z0-9_-].
C36_FirstCandidateDecides ==
    Extracted
    => /\ ~unitCall.result.threw
       /\ unitCall.result.id = DefaultTenantId \/ IsIdentifier(unitCall.result.id)
       /\ (FirstCandidate # NoId /\ ~IsIdentifier(FirstCandidate))
             => unitCall.result.id = DefaultTenantId
       /\ (FirstCandidate # NoId /\ IsIdentifier(FirstCandidate))
             => unitCall.result.id = FirstCandidate

\* The hostname's label is not a valid identifier, the x-tenant-id
\* header is, and the strategy has returned the default id.
C36_Witness ==
    /\ Extracted
    /\ HostCandidate # NoId
    /\ ~IsIdentifier(HostCandidate)
    /\ LaterCandidateValid
    /\ IsIdentifier(HeaderCandidate)
    /\ unitCall.result.id = DefaultTenantId

\* ------------------------------------------------------------------
\* The services directory that the loadServices of task t is loading.
ServicesPathOf(t) == SubPath(TenantPath(task[t].ctx.config), "services")

\* Task t imports and instantiates the files of its services directory
\* in this step, and stores the mapping it built in the cache.
InstantiatesServices(t) == task[t].pc = "svcLoad" /\ Steps(t)

\* C37: the files of one services path are imported and instantiated at
\* most once, under every interleaving of overlapping loadServices calls
\* for that path: no call instantiates them after another call has (the
\* mapping a second load builds is a new object, which replaces the
\* cached one).
C37_ServicesInstantiatedOnce ==
    [][\A t \in Tasks :
          InstantiatesServices(t)
          => /\ <<"services", ServicesPathOf(t)>> \notin loadedOnce
             /\ ~CachedServices(loadedResources, ServicesPathOf(t))]_vars

\* ------------------------------------------------------------------
\* The call of task t has its module imported and passes the typeof test
\* in this step.
CachesPlugin(t) ==
    /\ PluginTask(t).pc = "import"
    /\ PluginModule(PluginTask(t).kind, PluginTask(t).name) = "function"
    /\ pluginManager'.task[t] # PluginTask(t)

\* The registration of the call of task t rejects in this step.
RegisterRejects(t) ==
    /\ PluginTask(t).pc \in {"register", "registerCached"}
    /\ pluginManager'.task[t] # PluginTask(t)
    /\ pluginManager'.ret.error = "register failed"

\* C38: a plugin enters the cache only in the step that imported it and
\* found it a function, before app.register is called for it; a plugin
\* that is not found or not a function is never cached; a plugin whose
\* registration throws stays cached while the call returns success:false,
\* so a call for that name that begins afterwards registers the cached
\* callable and imports nothing.
C38_CachedBeforeRegister ==
    /\ [][/\ \A k \in pluginManager'.pluginCache \ pluginManager.pluginCache :
              \E t \in Tasks :
                 /\ CachesPlugin(t)
                 /\ PluginKey(t) = k
                 /\ pluginManager'.task[t].pc = "register"
                 /\ pluginManager'.registered = pluginManager.registered
          /\ \A t \in Tasks :
                RegisterRejects(t)
                => /\ PluginKey(t) \in pluginManager'.pluginCache
                   /\ pluginManager'.ret.success = FALSE
                   /\ pluginManager'.imported = pluginManager.imported
          /\ pluginManager.pluginCache \subseteq pluginManager'.pluginCache]_vars
    /\ [](\A k \in pluginManager.pluginCache :
             /\ PluginModule(k[1], k[2]) = "function"
             /\ k[1] = "local" => PluginPathExists(k[2]))
    /\ CachedIsRegistered

\* The registration of a freshly imported plugin threw and the call
\* returned success:false; the plugin is cached, and the next call for the
\* name is at the registration of the cached callable with one import
\* made in all.
C38_Witness ==
    /\ pluginManager.calls = 2
    /\ pluginManager.ret.op = "single"
    /\ pluginManager.ret.name = IdA
    /\ pluginManager.ret.kind = "local"
    /\ ~pluginManager.ret.success
    /\ pluginManager.ret.error = "register failed"
    /\ PluginTask("t1").pc = "registerCached"
    /\ PluginTask("t1").name = IdA
    /\ PluginTask("t1").kind = "local"
    /\ PluginTask("t2").pc = "idle"
    /\ PluginCacheKey("local", IdA) \in pluginManager.pluginCache
    /\ pluginManager.imported[PluginCacheKey("local", IdA)] = 1

\* --------------------------------------------------- loadCorePlugins
\* The longest coreOrder list of the server configuration.
MaxOrder == 2

\* An entry of the plugins directory whose name starts with a dot.
IdDot == <<".", "a">>

\* name.startsWith(".")
StartsWithDot(name) == name # << >> /\ name[1] = "."

\* The names coreOrder may hold: IdC names no entry of the directory.
CoreOrderNames == {IdA, IdB, IdC, IdDot}

\* What fs.readdir(pluginsDir) may list: the entries of a directory, each
\* name once.
PluginDirLists ==
    {s \in UNION {[1..n -> {IdA, IdB, IdDot}] : n \in 0..3} :
        \A i, j \in 1..Len(s) : i # j => s[i] # s[j]}

\* array.includes(name)
Includes(array, name) == \E i \in 1..Len(array) : array[i] = name

\* orderedPlugins of loadCorePlugins
OrderedPlugins(coreOrder, pluginDirs) ==
    SelectSeq(coreOrder, LAMBDA name : Includes(pluginDirs, name))
    \o SelectSeq(pluginDirs,
                 LAMBDA name : ~Includes(coreOrder, name) /\ ~StartsWithDot(name))

\* A server about to run loadCorePlugins(config): whether the plugins
\* directory exists and can be read, what it lists and the coreOrder of
\* the configuration.
InitCore ==
    /\ registry = [i \in {} |-> NoCtx]
    /\ maxTenants = MaxTenants
    /\ disk = Disk
    /\ trusted = {}
    /\ loadedResources = [k \in {} |-> {}]
    /\ app = {}
    /\ loadedOnce = {}
    /\ loadedAgain = {}
    /\ nextOid = 1
    /\ calls = 0
    /\ task = [t \in Tasks |-> IdleTask]
    /\ ret = NoRet
    /\ pathCall = NoPathCall
    /\ pluginManager = NoPluginManager
    /\ \E e \in BOOLEAN, r \in BOOLEAN, d \in PluginDirLists,
          o \in UNION {[1..n -> CoreOrderNames] : n \in 0..MaxOrder} :
          unitCall = [op |-> "loadCorePlugins", pc |-> "pathExists", exists |-> e,
                      readable |-> r, pluginDirs |-> d, coreOrder |-> o,
                      result |-> << >>]

\* loadCorePlugins after pathExists(pluginsDir): without the directory it
\* returns undefined.
CorePathStep ==
    /\ unitCall.op = "loadCorePlugins"
    /\ unitCall.pc = "pathExists"
    /\ unitCall' = [unitCall EXCEPT !.pc = IF unitCall.exists THEN "readdir" ELSE "returned"]
    /\ UNCHANGED <<registry, maxTenants, disk, trusted, loadedResources, app,
                   loadedOnce, loadedAgain, nextOid, calls, task, ret, pathCall,
                   pluginManager>>

\* loadCorePlugins after fs.readdir(pluginsDir): a rejection is logged and
\* thrown again; otherwise orderedPlugins is built and handed to
\* loadLocalPlugins, which runs to its first await.
CoreReaddirStep ==
    LET nxt == BatchNext([IdlePluginTask EXCEPT !.kind = "local", !.batch = TRUE,
                             !.names = OrderedPlugins(unitCall.coreOrder, unitCall.pluginDirs),
                             !.queue = OrderedPlugins(unitCall.coreOrder, unitCall.pluginDirs)],
                         pluginManager.pluginCache)
    IN  /\ unitCall.op = "loadCorePlugins"
        /\ unitCall.pc = "readdir"
        /\ IF ~unitCall.readable
           THEN /\ unitCall' = [unitCall EXCEPT !.pc = "threw"]
                /\ UNCHANGED pluginManager
           ELSE /\ unitCall' = [unitCall EXCEPT !.pc = "loadLocalPlugins"]
                /\ pluginManager' =
                      IF nxt.pc = "return"
                      THEN [pluginManager EXCEPT !.calls = @ + 1, !.ret = BatchReturn(nxt)]
                      ELSE [pluginManager EXCEPT !.calls = @ + 1, !.task["t1"] = nxt]
        /\ UNCHANGED <<registry, maxTenants, disk, trusted, loadedResources, app,
                       loadedOnce, loadedAgain, nextOid, calls, task, ret, pathCall>>

\* loadCorePlugins after loadLocalPlugins: it returns the summary.
CoreReturnStep ==
    /\ unitCall.op = "loadCorePlugins"
    /\ unitCall.pc = "loadLocalPlugins"
    /\ pluginManager.ret.op = "batch"
    /\ pluginManager.task["t1"].pc = "idle"
    /\ unitCall' = [unitCall EXCEPT !.pc = "returned", !.result = pluginManager.ret.results]
    /\ UNCHANGED <<registry, maxTenants, disk, trusted, loadedResources, app,
                   loadedOnce, loadedAgain, nextOid, calls, task, ret, pathCall,
                   pluginManager>>

NextCore ==
    \/ CorePathStep
    \/ CoreReaddirStep
    \/ PluginPathStep("t1")
    \/ PluginImportStep("t1")
    \/ \E r \in BOOLEAN : PluginRegisterStep("t1", r)
    \/ CoreReturnStep

SpecCore == InitCore /\ [][NextCore]_vars

\* The names loadCorePlugins attempted, in the order of the attempts.
Attempted == [i \in 1..Len(unitCall.result) |-> unitCall.result[i].plugin]

\* How many times loadCorePlugins attempted name.
Attempts(name) == Cardinality({i \in 1..Len(Attempted) : Attempted[i] = name})

\* C39: loadCorePlugins attempts first the names of coreOrder that the
\* plugins directory lists, in coreOrder order, then every other listed
\* name that does not start with a dot; each of these directories is
\* attempted exactly once and nothing else is, whichever plugins fail.
C39_EachDirectoryOnce ==
    (unitCall.op = "loadCorePlugins" /\ unitCall.pc = "returned" /\ unitCall.exists)
    => /\ Attempted = OrderedPlugins(unitCall.coreOrder, unitCall.pluginDirs)
       /\ \A name \in CoreOrderNames :
             Attempts(name) =
                IF /\ Includes(unitCall.pluginDirs, name)
                   /\ Includes(unitCall.coreOrder, name) \/ ~StartsWithDot(name)
                THEN 1 ELSE 0

====
